---- MODULE Spec2Model ----
(***************************************************************************)
(* Model of the Open Screen Protocol agent-to-agent session stack:         *)
(*   - the QUIC protocol connection endpoints (QuicClient, QuicServer),    *)
(*     their stream manager (ServiceConnectionDelegate) and the            *)
(*     per-stream handles (QuicProtocolConnection);                        *)
(*   - the SPAKE2 authentication message handler (AuthenticationBob).      *)
(*                                                                         *)
(* Every method of the program is an operator from an endpoint record to   *)
(* an endpoint record; an action applies one public operation or one       *)
(* event of the QUIC layer to the current state.  A failed OSP_CHECK       *)
(* aborts the process: it sets crashed and nothing runs afterwards.        *)
(***************************************************************************)
EXTENDS Integers, Sequences, FiniteSets, TLC

\* ------------------------------------------------------------------------
\* Bounds of the model.
MaxConns == 2      \* QUIC connection objects created over the lifetime
MaxHandles == 2    \* QuicProtocolConnection handles created
MaxRequests == 2   \* connect request ids issued
MaxStarts == 2     \* successful Start() calls
MaxChunks == 2     \* byte chunks signalled by the QUIC layer
StreamConns == 1   \* connection objects in the stream-level specification
StreamRequests == 1 \* connect requests in the stream-level specification
StreamStarts == 1  \* successful Start() calls in the stream-level one

NameSeq == <<"X", "Y">>     \* instance names, in std::map key order
Names == {NameSeq[i] : i \in 1..Len(NameSeq)}
Unknown == "Z"              \* a name the service listener never reported
Chunks == 1..MaxChunks       \* the non-empty byte chunks: the n-th one is n
ByteViewEmpty == 0          \* ByteView(): the empty view signalling EOF

VARIABLES
  role,                        \* "client" (QuicClient) or "server" (QuicServer)
  state_,                      \* ProtocolConnectionEndpoint::State
  crashed,                     \* an OSP_CHECK failed
  instance_map_,               \* instance name -> instance id
  next_instance_id_,           \* next_instance_id_ / next_instance_number_
  next_request_id_,            \* QuicClient::next_request_id_
  instance_infos_,             \* QuicClient::instance_infos_ (known names)
  instance_request_ids_,       \* InstanceRequestIds: instance id -> next id
  pending_connections_,        \* instance name -> pending connection data
  connections_,                \* instance id -> connection
  delete_connections_,         \* instance ids to erase at the next Cleanup
  pending_connection_delegate_,\* QuicServer: the delegate made last, or 0
  server_delegate_,            \* factory: a server delegate is set
  cleanup_alarm_,              \* a Cleanup run is scheduled
  quic,                        \* connection objects with their delegates
  pcs,                         \* QuicProtocolConnection handles
  req,                         \* history: what each connect request received
  issued,                      \* history: instance ids issued, in order
  epoch,                       \* history: Len(issued) at the last Stop
  hist,                        \* history: per stream, chunks in and out
  nchunks,                     \* history: chunks signalled so far
  starts,                      \* history: successful Start() calls
  last,                        \* the last operation, its result and events
  budget,                      \* how much of the bounds this run may use
  auth,                        \* the authentication session (SpecAuth)
  peer,                        \* the session's peer and the channel (SpecPair)
  factory,                     \* the connection factory (SpecFactory)
  demuxer,                     \* the message demuxer (SpecDemuxer)
  view                         \* a ByteView and the last call on it

evars == <<role, state_, crashed, instance_map_, next_instance_id_,
           next_request_id_, instance_infos_, instance_request_ids_,
           pending_connections_, connections_, delete_connections_,
           pending_connection_delegate_, server_delegate_, cleanup_alarm_,
           quic, pcs, req, issued, epoch, hist, nchunks, starts, last,
           budget>>
vars == <<evars, auth, peer, factory, demuxer, view>>

\* ------------------------------------------------------------------------
\* Helpers.
NoStream == <<>>

NoAuth == [instance_id_ |-> 0]   \* no authentication session exists

NoPeer == [started |-> FALSE]    \* no peer is modelled

NoFactory == [role |-> "none"]   \* no connection factory is looked at

NoDemuxer == [op |-> "none"]     \* no message demuxer is looked at

NoView == [op |-> "none"]        \* no ByteView is looked at

EmptyMap == [x \in {} |-> 0]

MinOf(S) == CHOOSE x \in S : \A y \in S : x <= y

Remove(f, k) == [x \in DOMAIN f \ {k} |-> f[x]]

\* std::map::emplace: inserts only when the key is absent.
Emplace(f, k, v) == IF k \in DOMAIN f THEN f ELSE (k :> v) @@ f

\* std::map::operator[] assignment.
Assign(f, k, v) == (k :> v) @@ f

Event(e, a, b, c) == [e |-> e, a |-> a, b |-> b, c |-> c]

Emit(s, e, a, b, c) == [s EXCEPT !.events = Append(@, Event(e, a, b, c))]

\* OSP_CHECK failure.
Abort(s) == [s EXCEPT !.crashed = TRUE]

\* Sequencing of statements: the state s is handed to the next step.
Then(s, Step(_)) == Step(s)

\* The same, unless an OSP_CHECK failed on the way.
AndThen(s, Step(_)) == IF s.crashed THEN s ELSE Step(s)

EmptyHist == [arrived |-> <<>>, live |-> <<>>, delivered |-> <<>>]

HistOf(s, k) == IF k \in DOMAIN s.hist THEN s.hist[k] ELSE EmptyHist

\* The endpoint as one record.
EP == [role |-> role, state_ |-> state_, crashed |-> crashed,
       instance_map_ |-> instance_map_,
       next_instance_id_ |-> next_instance_id_,
       next_request_id_ |-> next_request_id_,
       instance_infos_ |-> instance_infos_,
       instance_request_ids_ |-> instance_request_ids_,
       pending_connections_ |-> pending_connections_,
       connections_ |-> connections_,
       delete_connections_ |-> delete_connections_,
       pending_connection_delegate_ |-> pending_connection_delegate_,
       server_delegate_ |-> server_delegate_,
       cleanup_alarm_ |-> cleanup_alarm_,
       quic |-> quic, pcs |-> pcs, req |-> req, issued |-> issued,
       epoch |-> epoch, hist |-> hist, nchunks |-> nchunks,
       starts |-> starts, budget |-> budget,
       events |-> <<>>, ret |-> 0, out |-> 0]

\* ------------------------------------------------------------------------
\* MessageDemuxer::OnStreamData, as far as the endpoint is concerned: the
\* (instance id, protocol connection id, bytes) handed to the demuxer.
MessageDemuxer_OnStreamData(s, instance_id, protocol_connection_id, bytes) ==
  Emit(s, "OnStreamData", instance_id, protocol_connection_id, bytes)

QuicClient_OnDataReceived(s, instance_number, protocol_connection_id, bytes) ==
  MessageDemuxer_OnStreamData(s, instance_number, protocol_connection_id, bytes)

QuicServer_OnDataReceived(s, instance_id, protocol_connection_id, bytes) ==
  IF s.state_ # "kRunning" THEN Abort(s)      \* OSP_CHECK_EQ(state_, kRunning)
  ELSE MessageDemuxer_OnStreamData(s, instance_id, protocol_connection_id,
                                   bytes)

\* parent_.OnDataReceived: the virtual call of the stream manager.
Parent_OnDataReceived(s, instance_id, protocol_connection_id, bytes) ==
  IF s.role = "client"
  THEN QuicClient_OnDataReceived(s, instance_id, protocol_connection_id, bytes)
  ELSE QuicServer_OnDataReceived(s, instance_id, protocol_connection_id, bytes)

\* History: what the call made for stream k handed to the demuxer, if
\* anything (s0 is the state before the call, s1 the state after it).
RecordDelivered(s0, s1, k) ==
  IF /\ ~s1.crashed
     /\ Len(s1.events) > Len(s0.events)
     /\ s1.events[Len(s1.events)].e = "OnStreamData"
  THEN LET ev == s1.events[Len(s1.events)]
           h == HistOf(s1, k)
       IN [s1 EXCEPT !.hist = Assign(@, k,
             [h EXCEPT !.delivered = Append(@, <<ev.a, ev.b, ev.c>>)])]
  ELSE s1

\* ------------------------------------------------------------------------
\* QuicProtocolConnection.
QuicProtocolConnection_OnClose(s, h) ==
  IF s.pcs[h].destroyed THEN Abort(s)        \* dangling protocol_connection
  ELSE IF s.pcs[h].observer
       THEN Emit(s, "observer.OnConnectionClosed", h, 0, 0)
       ELSE s

QuicProtocolConnection_Write(s, h, bytes) ==
  LET stream_ == s.pcs[h].stream
  IN IF stream_ # NoStream
     THEN [Emit(s, "stream.Write", stream_[1], stream_[2], bytes)
             EXCEPT !.ret = 1]
     ELSE [s EXCEPT !.ret = 0]

QuicProtocolConnection_CloseWriteEnd(s, h) ==
  LET stream_ == s.pcs[h].stream
  IN IF stream_ # NoStream
     THEN [Emit(s, "stream.CloseWriteEnd", stream_[1], stream_[2], 0)
             EXCEPT !.ret = 1]
     ELSE [s EXCEPT !.ret = 0]

\* ------------------------------------------------------------------------
\* ServiceConnectionDelegate, the stream manager of connection d.
ServiceConnectionDelegate_AddStreamPair(s, d, stream_id, stream_pair) ==
  [s EXCEPT !.quic[d].streams_ = Emplace(@, stream_id, stream_pair)]

\* A stream manager that keeps its pointer to a handle being destroyed.
ServiceConnectionDelegate_DropProtocolConnection_KeepPointer(s, d, h) == s

ServiceConnectionDelegate_DropProtocolConnection(s, d, h) ==
  LET stream_id == s.pcs[h].stream[2]
  IN IF stream_id \notin DOMAIN s.quic[d].streams_ THEN s
     ELSE [s EXCEPT !.quic[d].streams_[stream_id].protocol_connection = 0]

ServiceConnectionDelegate_DestroyClosedStreams(s, d) ==
  [s EXCEPT !.quic[d].closed_streams_ = <<>>]

\* History: the call made s1 out of s0; if it told the demuxer or an
\* observer something for connection d after d's record was destroyed, the
\* connection is marked.
RecordCall(s0, s1, d) ==
  IF s0.quic[d].owner = "destroyed" /\ Len(s1.events) > Len(s0.events)
  THEN [s1 EXCEPT !.quic[d].owner = "called after destruction"]
  ELSE s1

\* A stream manager that forwards nothing.
ServiceConnectionDelegate_OnReceived_Drop(s, d, stream_id, bytes) == s

ServiceConnectionDelegate_OnReceived(s, d, stream_id, bytes) ==
  IF stream_id \notin DOMAIN s.quic[d].streams_ THEN s
  ELSE LET stream_pair == s.quic[d].streams_[stream_id]
       IN RecordCall(s,
            RecordDelivered(s,
              Parent_OnDataReceived(s, s.quic[d].instance_id_,
                                    stream_pair.protocol_connection_id, bytes),
              <<d, stream_id>>),
            d)

\* A close that does not tell the demuxer.
ServiceConnectionDelegate_OnClose_NoEof(s, d, stream_id) ==
  IF stream_id \notin DOMAIN s.quic[d].streams_ THEN s
  ELSE LET stream_pair == s.quic[d].streams_[stream_id]
           h == stream_pair.protocol_connection
       IN AndThen(IF h = 0 THEN s
                  ELSE QuicProtocolConnection_OnClose(
                         [s EXCEPT !.pcs[h].stream = NoStream], h),
                  LAMBDA s2 :
                    [s2 EXCEPT
                      !.quic[d].closed_streams_ =
                          Append(@, [stream_id |-> stream_id,
                                     protocol_connection_id |->
                                         stream_pair.protocol_connection_id,
                                     protocol_connection |-> h]),
                      !.quic[d].streams_ = Remove(@, stream_id)])

\* A close that leaves the handle's stream pointer as it is.
ServiceConnectionDelegate_OnClose_KeepPointer(s, d, stream_id) ==
  IF stream_id \notin DOMAIN s.quic[d].streams_ THEN s
  ELSE LET stream_pair == s.quic[d].streams_[stream_id]
           h == stream_pair.protocol_connection
       IN AndThen(AndThen(RecordDelivered(s,
                    Parent_OnDataReceived(s, s.quic[d].instance_id_,
                        stream_pair.protocol_connection_id, ByteViewEmpty),
                    <<d, stream_id>>),
                  LAMBDA s1 :
                    IF h = 0 THEN s1
                    ELSE QuicProtocolConnection_OnClose(s1, h)),
              LAMBDA s2 :
                [s2 EXCEPT
                  !.quic[d].closed_streams_ =
                      Append(@, [stream_id |-> stream_id,
                                 protocol_connection_id |->
                                     stream_pair.protocol_connection_id,
                                 protocol_connection |-> h]),
                  !.quic[d].streams_ = Remove(@, stream_id)])

ServiceConnectionDelegate_OnClose(s, d, stream_id) ==
  IF stream_id \notin DOMAIN s.quic[d].streams_ THEN s
  ELSE LET stream_pair == s.quic[d].streams_[stream_id]
           h == stream_pair.protocol_connection
       IN AndThen(AndThen(RecordDelivered(s,
                    Parent_OnDataReceived(s, s.quic[d].instance_id_,
                        stream_pair.protocol_connection_id, ByteViewEmpty),
                    <<d, stream_id>>),
                  LAMBDA s1 :
                    IF h = 0 THEN s1
                    ELSE QuicProtocolConnection_OnClose(
                           [s1 EXCEPT !.pcs[h].stream = NoStream], h)),
              LAMBDA s2 :
                RecordCall(s,
                  [s2 EXCEPT
                    !.quic[d].closed_streams_ =
                        Append(@, [stream_id |-> stream_id,
                                   protocol_connection_id |->
                                       stream_pair.protocol_connection_id,
                                   protocol_connection |-> h]),
                    !.quic[d].streams_ = Remove(@, stream_id)],
                  d))

\* A destructor that closes a stream still open after the record is gone,
\* where the code asserts that there is none.
ServiceConnectionData_Destroy_ThenClose(s, d) ==
  IF s.crashed THEN s
  ELSE IF DOMAIN s.quic[d].streams_ # {}
  THEN ServiceConnectionDelegate_OnClose(
         [s EXCEPT !.quic[d].owner = "destroyed"], d,
         MinOf(DOMAIN s.quic[d].streams_))
  ELSE [s EXCEPT !.quic[d] = [@ EXCEPT !.owner = "destroyed",
                                      !.closed_streams_ = <<>>,
                                      !.next_stream_id = 0]]

\* ~ServiceConnectionDelegate together with the connection it serves: the
\* ServiceConnectionData record is destroyed.
ServiceConnectionData_Destroy(s, d) ==
  IF s.crashed THEN s
  ELSE IF DOMAIN s.quic[d].streams_ # {} THEN Abort(s)  \* OSP_CHECK(streams_.empty())
  ELSE [s EXCEPT !.quic[d] = [@ EXCEPT !.owner = "destroyed",
                                      !.closed_streams_ = <<>>,
                                      !.next_stream_id = 0]]

\* QuicProtocolConnection::Owner::OnConnectionDestroyed, the same code in
\* QuicClient and QuicServer.
Owner_OnConnectionDestroyed(s, h) ==
  Then(Emit(s, "owner.OnConnectionDestroyed", h, 0, 0),
       LAMBDA s1 :
         IF s1.pcs[h].stream = NoStream THEN s1
         ELSE IF s1.pcs[h].instance_id \notin DOMAIN s1.connections_ THEN s1
         ELSE ServiceConnectionDelegate_DropProtocolConnection(
                s1, s1.connections_[s1.pcs[h].instance_id].delegate, h))

QuicProtocolConnection_Destroy(s, h) ==
  LET stream_ == s.pcs[h].stream
  IN Then(IF stream_ # NoStream
          THEN [Owner_OnConnectionDestroyed(
                  Emit(s, "stream.CloseWriteEnd", stream_[1], stream_[2], 0),
                  h)
                EXCEPT !.pcs[h].stream = NoStream]
          ELSE s,
          LAMBDA s1 : [s1 EXCEPT !.pcs[h].destroyed = TRUE,
                                 !.pcs[h].observer = FALSE])

\* QuicConnection::MakeOutgoingStream: a stream with an id fresh on its
\* connection.
QuicConnection_MakeOutgoingStream(s, c) ==
  [Emit(s, "MakeOutgoingStream", c, s.quic[c].next_stream_id, 0)
     EXCEPT !.quic[c].next_stream_id = @ + 1,
            !.out = s.quic[c].next_stream_id]

\* The handle made for the stream s.out of connection: its index is s.out
\* afterwards. History: made_on keeps the connection the handle was made on.
QuicProtocolConnection_New(s, connection, instance_id) ==
  [s EXCEPT !.pcs = Append(@, [instance_id |-> instance_id, id |-> s.out,
                                stream |-> <<connection, s.out>>,
                                destroyed |-> FALSE, observer |-> FALSE,
                                made_on |-> connection]),
            !.out = Len(s.pcs) + 1]

QuicProtocolConnection_FromExisting(s, connection, delegate, instance_id) ==
  Then(QuicProtocolConnection_New(
         QuicConnection_MakeOutgoingStream(s, connection), connection,
         instance_id),
       LAMBDA s2 :
         ServiceConnectionDelegate_AddStreamPair(s2, delegate,
           s2.pcs[s2.out].id,
           [protocol_connection_id |-> s2.pcs[s2.out].id,
            protocol_connection |-> s2.out]))

\* ------------------------------------------------------------------------
\* Connection closing.
InstanceRequestIds_ResetRequestId(s, instance_id) ==
  [s EXCEPT !.instance_request_ids_ = Remove(@, instance_id)]

InstanceRequestIds_Reset(s) ==
  [s EXCEPT !.instance_request_ids_ = EmptyMap]

QuicClient_OnConnectionClosed(s, instance_number) ==
  IF instance_number \notin DOMAIN s.connections_ THEN s
  ELSE InstanceRequestIds_ResetRequestId(
         [s EXCEPT !.delete_connections_ = Append(@, instance_number)],
         instance_number)

QuicServer_OnConnectionClosed(s, instance_id) ==
  IF s.state_ # "kRunning" THEN Abort(s)      \* OSP_CHECK_EQ(state_, kRunning)
  ELSE IF instance_id \notin DOMAIN s.connections_ THEN s
  ELSE InstanceRequestIds_ResetRequestId(
         [s EXCEPT !.delete_connections_ = Append(@, instance_id)],
         instance_id)

ServiceConnectionDelegate_OnConnectionClosed(s, d) ==
  IF s.crashed THEN s
  ELSE IF s.role = "client"
       THEN QuicClient_OnConnectionClosed(s, s.quic[d].instance_id_)
       ELSE QuicServer_OnConnectionClosed(s, s.quic[d].instance_id_)

\* The QUIC session of connection c goes down: each stream still open is
\* closed, then the connection's delegate is told.
RECURSIVE CloseStreams(_, _, _)
CloseStreams(s, c, ids) ==
  IF ids = {} \/ s.crashed THEN s
  ELSE CloseStreams(ServiceConnectionDelegate_OnClose(s, c, MinOf(ids)), c,
                    ids \ {MinOf(ids)})

QuicConnection_OnConnectionClosed(s, c) ==
  ServiceConnectionDelegate_OnConnectionClosed(
    CloseStreams([s EXCEPT !.quic[c].closed = TRUE], c,
                 DOMAIN s.quic[c].streams_), c)

\* QuicConnection::Close.
QuicConnection_Close(s, c) ==
  IF s.crashed THEN s
  ELSE Then(Emit([s EXCEPT !.quic[c].close_called = TRUE],
                 "connection.Close", c, 0, 0),
            LAMBDA s1 :
              IF s.quic[c].closed THEN s1
              ELSE QuicConnection_OnConnectionClosed(s1, c))

\* ------------------------------------------------------------------------
\* Cleanup.
RECURSIVE EraseDeleted(_, _)
EraseDeleted(s, i) ==
  IF i > Len(s.delete_connections_) \/ s.crashed THEN s
  ELSE LET instance_id == s.delete_connections_[i]
       IN IF instance_id \in DOMAIN s.connections_
          THEN EraseDeleted(
                 [ServiceConnectionData_Destroy(
                    s, s.connections_[instance_id].connection)
                   EXCEPT !.connections_ = Remove(@, instance_id)],
                 i + 1)
          ELSE EraseDeleted(s, i + 1)

Alarm_ScheduleFromNow(s) == [s EXCEPT !.cleanup_alarm_ = TRUE]

CleanupFinish(s) ==
  IF s.crashed THEN s
  ELSE AndThen(EraseDeleted(s, 1),
           LAMBDA s1 :
             IF s1.state_ # "kStopped"
             THEN Alarm_ScheduleFromNow(
                    [s1 EXCEPT !.delete_connections_ = <<>>])
             ELSE [s1 EXCEPT !.delete_connections_ = <<>>])

\* A cleanup that closes every established connection, idle or not.
RECURSIVE QuicClient_CleanupLoop_CloseAll(_, _)
QuicClient_CleanupLoop_CloseAll(s, ids) ==
  IF ids = {} \/ s.crashed THEN s
  ELSE QuicClient_CleanupLoop_CloseAll(
         QuicConnection_Close(
           ServiceConnectionDelegate_DestroyClosedStreams(
             s, s.connections_[MinOf(ids)].delegate),
           s.connections_[MinOf(ids)].connection),
         ids \ {MinOf(ids)})

RECURSIVE QuicClient_CleanupLoop(_, _)
QuicClient_CleanupLoop(s, ids) ==
  IF ids = {} \/ s.crashed THEN s
  ELSE LET id == MinOf(ids)
           entry == s.connections_[id]
       IN QuicClient_CleanupLoop(
            Then(ServiceConnectionDelegate_DestroyClosedStreams(
                   s, entry.delegate),
                 LAMBDA s1 :
                   IF DOMAIN s1.quic[entry.delegate].streams_ = {}
                   THEN QuicConnection_Close(s1, entry.connection)
                   ELSE s1),
            ids \ {id})

QuicClient_Cleanup(s) ==
  CleanupFinish(QuicClient_CleanupLoop(s, DOMAIN s.connections_))

RECURSIVE QuicServer_CleanupLoop(_, _)
QuicServer_CleanupLoop(s, ids) ==
  IF ids = {} THEN s
  ELSE QuicServer_CleanupLoop(
         ServiceConnectionDelegate_DestroyClosedStreams(
           s, s.connections_[MinOf(ids)].delegate),
         ids \ {MinOf(ids)})

QuicServer_Cleanup(s) ==
  CleanupFinish(QuicServer_CleanupLoop(s, DOMAIN s.connections_))

\* ------------------------------------------------------------------------
\* Callbacks of a connect request, with the history of what it received.
Callback_OnConnectionOpened(s, request_id, h) ==
  Emit(IF request_id \in DOMAIN s.req
       THEN [s EXCEPT !.req[request_id].opened = @ + 1,
                      !.req[request_id].late =
                          @ \/ s.req[request_id].cancelled]
       ELSE s,
       "OnConnectionOpened", request_id, h, 0)

Callback_OnConnectionFailed(s, request_id) ==
  Emit(IF request_id \in DOMAIN s.req
       THEN [s EXCEPT !.req[request_id].failed = @ + 1]
       ELSE s,
       "OnConnectionFailed", request_id, 0, 0)

\* request_id = next_request_id_++
NextRequestId(s) ==
  [s EXCEPT !.next_request_id_ = @ + 1,
            !.out = s.next_request_id_,
            !.req = Assign(@, s.next_request_id_,
                      [cancelled |-> FALSE, opened |-> 0, failed |-> 0,
                       late |-> FALSE])]

\* ------------------------------------------------------------------------
\* QuicClient.
QuicClient_CreateProtocolConnection(s, instance_number) ==
  IF s.state_ # "kRunning" THEN [s EXCEPT !.out = 0]
  ELSE IF instance_number \notin DOMAIN s.connections_
       THEN [s EXCEPT !.out = 0]
  ELSE QuicProtocolConnection_FromExisting(
         s, s.connections_[instance_number].connection,
         s.connections_[instance_number].delegate, instance_number)

\* QuicConnectionFactory::Connect as the client sees it: a new connection
\* object with its delegate, or an error (ok = FALSE).
QuicConnectionFactory_Connect(s, instance_id, ok) ==
  IF ~ok THEN [s EXCEPT !.out = 0]
  ELSE [Emit(s, "factory.Connect", Len(s.quic) + 1, 0, 0) EXCEPT
          !.quic = Append(@, [name |-> instance_id, instance_id_ |-> 0,
                              owner |-> "pending", hs |-> FALSE,
                              closed |-> FALSE, close_called |-> FALSE,
                              streams_ |-> EmptyMap, closed_streams_ |-> <<>>,
                              next_stream_id |-> 0]),
          !.out = Len(s.quic) + 1]

QuicClient_StartConnectionRequest(s, instance_id, ok) ==
  IF instance_id \notin s.instance_infos_
  THEN [Callback_OnConnectionFailed(s, 0) EXCEPT !.out = 0]
  ELSE Then(QuicConnectionFactory_Connect(s, instance_id, ok),
            LAMBDA s1 :
              IF s1.out = 0
              THEN [Callback_OnConnectionFailed(s1, 0) EXCEPT !.out = 0]
              ELSE Then(NextRequestId(
                          [s1 EXCEPT !.pending_connections_ =
                             Emplace(@, instance_id,
                                     [connection |-> s1.out,
                                      delegate |-> s1.out,
                                      callbacks |-> <<>>])]),
                        LAMBDA s3 :
                          [s3 EXCEPT
                            !.pending_connections_[instance_id].callbacks =
                                Append(@, s3.out)]))

\* A Connect that starts a connection attempt for every request.
QuicClient_CreatePendingConnection_Always(s, instance_id, ok) ==
  Then(QuicClient_StartConnectionRequest(s, instance_id, ok),
       LAMBDA s1 : [s1 EXCEPT !.ret = IF s1.out # 0 THEN 1 ELSE 0])

QuicClient_CreatePendingConnection(s, instance_id, ok) ==
  IF instance_id \notin DOMAIN s.pending_connections_
  THEN Then(QuicClient_StartConnectionRequest(s, instance_id, ok),
            LAMBDA s1 : [s1 EXCEPT !.ret = IF s1.out # 0 THEN 1 ELSE 0])
  ELSE Then(NextRequestId(s),
            LAMBDA s1 :
              [s1 EXCEPT !.pending_connections_[instance_id].callbacks =
                             Append(@, s1.out),
                         !.ret = 1])

\* A Connect that does not look for an established connection.
QuicClient_Connect_AlwaysPending(s, instance_id, ok) ==
  IF s.state_ # "kRunning"
  THEN [Callback_OnConnectionFailed(s, 0) EXCEPT !.ret = 0, !.out = 0]
  ELSE QuicClient_CreatePendingConnection(s, instance_id, ok)

QuicClient_Connect(s, instance_id, ok) ==
  IF s.state_ # "kRunning"
  THEN [Callback_OnConnectionFailed(s, 0) EXCEPT !.ret = 0, !.out = 0]
  ELSE IF instance_id \in DOMAIN s.instance_map_
  THEN Then(QuicClient_CreateProtocolConnection(
              s, s.instance_map_[instance_id]),
            LAMBDA s1 :
              IF s1.out = 0 THEN Abort(s1)   \* OSP_CHECK(immediate_result)
              ELSE Then(NextRequestId(s1),
                        LAMBDA s2 :
                          [Callback_OnConnectionOpened(s2, s2.out, s1.out)
                             EXCEPT !.ret = 1]))
  ELSE QuicClient_CreatePendingConnection(s, instance_id, ok)

RECURSIVE QuicClient_OpenCallbacks(_, _, _, _, _, _)
QuicClient_OpenCallbacks(s, callbacks, i, connection, delegate, instance_number) ==
  IF i > Len(callbacks) THEN s
  ELSE QuicClient_OpenCallbacks(
         Then(QuicProtocolConnection_FromExisting(
                s, connection, delegate, instance_number),
              LAMBDA s1 :
                Callback_OnConnectionOpened(s1, callbacks[i], s1.out)),
         callbacks, i + 1, connection, delegate, instance_number)

QuicClient_OnCryptoHandshakeComplete(s, delegate) ==
  LET instance_id == s.quic[delegate].name
  IN IF instance_id \notin DOMAIN s.pending_connections_
     THEN [s EXCEPT !.out = 0]
     ELSE LET pending_entry == s.pending_connections_[instance_id]
              connection == pending_entry.connection
              instance_number == s.next_instance_id_
          IN [QuicClient_OpenCallbacks(
                [s EXCEPT
                   !.next_instance_id_ = @ + 1,
                   !.instance_map_ = Assign(@, instance_id, instance_number),
                   !.connections_ = Emplace(@, instance_number,
                       [connection |-> connection,
                        delegate |-> pending_entry.delegate]),
                   !.quic[connection].owner = "established",
                   !.issued = Append(@, instance_number)],
                pending_entry.callbacks, 1, connection, delegate,
                instance_number)
              EXCEPT !.pending_connections_ = Remove(@, instance_id),
                     !.out = instance_number]

\* A cancel that erases the callback and leaves the emptied entry in the table.
RECURSIVE QuicClient_CancelLoop_KeepEntry(_, _, _)
QuicClient_CancelLoop_KeepEntry(s, i, request_id) ==
  IF i > Len(NameSeq) THEN s
  ELSE IF NameSeq[i] \notin DOMAIN s.pending_connections_
       THEN QuicClient_CancelLoop_KeepEntry(s, i + 1, request_id)
  ELSE IF request_id \in
            {s.pending_connections_[NameSeq[i]].callbacks[j] :
               j \in 1..Len(s.pending_connections_[NameSeq[i]].callbacks)}
       THEN [s EXCEPT !.pending_connections_[NameSeq[i]].callbacks =
                        SelectSeq(@, LAMBDA r : r # request_id)]
  ELSE QuicClient_CancelLoop_KeepEntry(s, i + 1, request_id)

RECURSIVE QuicClient_CancelLoop(_, _, _)
QuicClient_CancelLoop(s, i, request_id) ==
  IF i > Len(NameSeq) THEN s
  ELSE IF NameSeq[i] \notin DOMAIN s.pending_connections_
       THEN QuicClient_CancelLoop(s, i + 1, request_id)
  ELSE LET it == NameSeq[i]
           before == s.pending_connections_[it].callbacks
           callbacks == SelectSeq(before, LAMBDA r : r # request_id)
           s1 == [s EXCEPT !.pending_connections_[it].callbacks = callbacks]
       IN IF callbacks = <<>>
          THEN [ServiceConnectionData_Destroy(
                  s1, s1.pending_connections_[it].connection)
                 EXCEPT !.pending_connections_ = Remove(@, it)]
          ELSE IF Len(before) > Len(callbacks) THEN s1
          ELSE QuicClient_CancelLoop(s1, i + 1, request_id)

\* A cancel that erases the whole pending entry the request waits on,
\* whoever else waits on it.
QuicClient_CancelConnectRequest_DropEntry(s, request_id) ==
  [s EXCEPT !.pending_connections_ =
     [n \in {m \in DOMAIN @ :
               \A j \in 1..Len(@[m].callbacks) :
                 @[m].callbacks[j] # request_id} |-> @[n]]]

\* A cancel that leaves the callback registered.
QuicClient_CancelConnectRequest_Keep(s, request_id) == s

QuicClient_CancelConnectRequest(s, request_id) ==
  QuicClient_CancelLoop(s, 1, request_id)

RECURSIVE FailCallbacks(_, _, _)
FailCallbacks(s, callbacks, i) ==
  IF i > Len(callbacks) THEN s
  ELSE FailCallbacks(Callback_OnConnectionFailed(s, callbacks[i]),
                     callbacks, i + 1)

RECURSIVE QuicClient_ClosePending(_, _)
QuicClient_ClosePending(s, i) ==
  IF i > Len(NameSeq) \/ s.crashed THEN s
  ELSE IF NameSeq[i] \notin DOMAIN s.pending_connections_
       THEN QuicClient_ClosePending(s, i + 1)
  ELSE LET conn == s.pending_connections_[NameSeq[i]]
       IN QuicClient_ClosePending(
            AndThen(QuicConnection_Close(s, conn.connection),
                LAMBDA s1 : FailCallbacks(s1, conn.callbacks, 1)),
            i + 1)

RECURSIVE CloseEstablishedLoop(_, _)
CloseEstablishedLoop(s, ids) ==
  IF ids = {} \/ s.crashed THEN s
  ELSE CloseEstablishedLoop(
         QuicConnection_Close(s, s.connections_[MinOf(ids)].connection),
         ids \ {MinOf(ids)})

\* for (auto& conn : connections_) conn.second.connection->Close();
CloseEstablished(s) == CloseEstablishedLoop(s, DOMAIN s.connections_)

\* std::map::clear of a table of ServiceConnectionData.
RECURSIVE DestroyAll(_, _)
DestroyAll(s, cs) ==
  IF cs = {} \/ s.crashed THEN s
  ELSE DestroyAll(ServiceConnectionData_Destroy(s, MinOf(cs)),
                  cs \ {MinOf(cs)})

\* pending_connections_.clear()
ClearPending(s) ==
  AndThen(DestroyAll(s, {s.pending_connections_[n].connection :
                       n \in DOMAIN s.pending_connections_}),
      LAMBDA s1 : [s1 EXCEPT !.pending_connections_ = EmptyMap])

\* connections_.clear()
ClearEstablished(s) ==
  AndThen(DestroyAll(s, {s.connections_[i].connection :
                       i \in DOMAIN s.connections_}),
      LAMBDA s1 : [s1 EXCEPT !.connections_ = EmptyMap])

\* A teardown that forgets the callbacks of the pending connections.
QuicClient_CloseAllConnections_Silent(s) ==
  AndThen(ClearEstablished(CloseEstablished(ClearPending(s))),
          LAMBDA s4 :
            InstanceRequestIds_Reset(
              [s4 EXCEPT !.instance_map_ = EmptyMap,
                         !.next_instance_id_ = 1]))

QuicClient_CloseAllConnections(s) ==
  AndThen(ClearEstablished(
        CloseEstablished(ClearPending(QuicClient_ClosePending(s, 1)))),
      LAMBDA s4 :
        InstanceRequestIds_Reset(
          [s4 EXCEPT !.instance_map_ = EmptyMap,
                     !.next_instance_id_ = 1]))

QuicClient_Start(s) ==
  IF s.state_ = "kRunning" THEN [s EXCEPT !.ret = 0]
  ELSE AndThen(QuicClient_Cleanup([s EXCEPT !.state_ = "kRunning"]),
           LAMBDA s1 :
             [Emit(s1, "observer.OnRunning", 0, 0, 0) EXCEPT !.ret = 1])

QuicClient_Stop(s) ==
  IF s.state_ = "kStopped" THEN [s EXCEPT !.ret = 0]
  ELSE AndThen(AndThen(QuicClient_CloseAllConnections(s),
               LAMBDA s1 :
                 QuicClient_Cleanup([s1 EXCEPT !.state_ = "kStopped"])),
           LAMBDA s2 :
             [Emit(s2, "observer.OnStopped", 0, 0, 0) EXCEPT !.ret = 1])

\* ------------------------------------------------------------------------
\* QuicServer.
QuicConnectionFactory_SetServerDelegate(s, delegate) ==
  IF delegate = s.server_delegate_ THEN Abort(s)  \* OSP_CHECK(!delegate != !server_delegate_)
  ELSE [s EXCEPT !.server_delegate_ = delegate]

\* A CreateProtocolConnection that does not look at the state.
QuicServer_CreateProtocolConnection_AnyState(s, instance_id) ==
  IF instance_id \notin DOMAIN s.connections_ THEN [s EXCEPT !.out = 0]
  ELSE QuicProtocolConnection_FromExisting(
         s, s.connections_[instance_id].connection,
         s.connections_[instance_id].delegate, instance_id)

QuicServer_CreateProtocolConnection(s, instance_id) ==
  IF s.state_ # "kRunning" THEN [s EXCEPT !.out = 0]
  ELSE IF instance_id \notin DOMAIN s.connections_ THEN [s EXCEPT !.out = 0]
  ELSE QuicProtocolConnection_FromExisting(
         s, s.connections_[instance_id].connection,
         s.connections_[instance_id].delegate, instance_id)

\* A promotion that does not advance the instance id counter.
QuicServer_OnCryptoHandshakeComplete_SameId(s, delegate) ==
  IF s.state_ # "kRunning" THEN Abort(s)
  ELSE LET instance_name == s.quic[delegate].name
       IN IF instance_name \notin DOMAIN s.pending_connections_
          THEN [s EXCEPT !.out = 0]
          ELSE LET connection_data == s.pending_connections_[instance_name]
                   instance_id == s.next_instance_id_
               IN [s EXCEPT
                     !.pending_connections_ = Remove(@, instance_name),
                     !.instance_map_ = Assign(@, instance_name, instance_id),
                     !.connections_ = Assign(@, instance_id,
                         [connection |-> connection_data.connection,
                          delegate |-> connection_data.delegate]),
                     !.quic[connection_data.connection].owner = "established",
                     !.issued = Append(@, instance_id),
                     !.out = instance_id]

QuicServer_OnCryptoHandshakeComplete(s, delegate) ==
  IF s.state_ # "kRunning" THEN Abort(s)      \* OSP_CHECK_EQ(state_, kRunning)
  ELSE LET instance_name == s.quic[delegate].name
       IN IF instance_name \notin DOMAIN s.pending_connections_
          THEN [s EXCEPT !.out = 0]
          ELSE LET connection_data == s.pending_connections_[instance_name]
                   instance_id == s.next_instance_id_
               IN [s EXCEPT
                     !.pending_connections_ = Remove(@, instance_name),
                     !.next_instance_id_ = @ + 1,
                     !.instance_map_ = Assign(@, instance_name, instance_id),
                     !.connections_ = Emplace(@, instance_id,
                         [connection |-> connection_data.connection,
                          delegate |-> connection_data.delegate]),
                     !.quic[connection_data.connection].owner = "established",
                     !.issued = Append(@, instance_id),
                     !.out = instance_id]

QuicServer_OnIncomingStream(s, h) ==
  IF s.state_ # "kRunning" THEN Abort(s)      \* OSP_CHECK_EQ(state_, kRunning)
  ELSE Emit(s, "observer.OnIncomingConnection", h, 0, 0)

QuicClient_OnIncomingStream(s, h) == QuicProtocolConnection_Destroy(s, h)

QuicServer_NextConnectionDelegate(s, source) ==
  IF s.state_ # "kRunning" THEN Abort(s)      \* OSP_CHECK_EQ(state_, kRunning)
  ELSE IF s.pending_connection_delegate_ # 0 THEN Abort(s)
  ELSE [s EXCEPT
          !.quic = Append(@, [name |-> source, instance_id_ |-> 0,
                              owner |-> "delegate", hs |-> FALSE,
                              closed |-> FALSE, close_called |-> FALSE,
                              streams_ |-> EmptyMap, closed_streams_ |-> <<>>,
                              next_stream_id |-> 0]),
          !.pending_connection_delegate_ = Len(s.quic) + 1,
          !.out = Len(s.quic) + 1]

QuicServer_OnIncomingConnection(s, connection) ==
  IF s.state_ # "kRunning" THEN Abort(s)      \* OSP_CHECK_EQ(state_, kRunning)
  ELSE LET instance_name == s.quic[s.pending_connection_delegate_].name
           s1 == [s EXCEPT !.pending_connection_delegate_ = 0]
       IN IF instance_name \in DOMAIN s.pending_connections_
          THEN ServiceConnectionData_Destroy(s1, connection)
          ELSE [s1 EXCEPT
                  !.pending_connections_ = Emplace(@, instance_name,
                      [connection |-> connection,
                       delegate |-> s.pending_connection_delegate_,
                       callbacks |-> <<>>]),
                  !.quic[connection].owner = "pending"]

RECURSIVE QuicServer_ClosePending(_, _)
QuicServer_ClosePending(s, i) ==
  IF i > Len(NameSeq) \/ s.crashed THEN s
  ELSE IF NameSeq[i] \notin DOMAIN s.pending_connections_
       THEN QuicServer_ClosePending(s, i + 1)
  ELSE QuicServer_ClosePending(
         QuicConnection_Close(s, s.pending_connections_[NameSeq[i]].connection),
         i + 1)

\* A teardown that keeps the instance id counter.
QuicServer_CloseAllConnections_KeepCounter(s) ==
  AndThen(ClearEstablished(
            CloseEstablished(ClearPending(QuicServer_ClosePending(s, 1)))),
          LAMBDA s4 :
            InstanceRequestIds_Reset([s4 EXCEPT !.instance_map_ = EmptyMap]))

QuicServer_CloseAllConnections(s) ==
  AndThen(ClearEstablished(
        CloseEstablished(ClearPending(QuicServer_ClosePending(s, 1)))),
      LAMBDA s4 :
        InstanceRequestIds_Reset(
          [s4 EXCEPT !.instance_map_ = EmptyMap,
                     !.next_instance_id_ = 1]))

\* A server Start that does not run the first Cleanup().
QuicServer_Start_NoCleanup(s) ==
  IF s.state_ # "kStopped" THEN [s EXCEPT !.ret = 0]
  ELSE AndThen(QuicConnectionFactory_SetServerDelegate(
                 [s EXCEPT !.state_ = "kRunning"], TRUE),
           LAMBDA s2 :
             [Emit(s2, "observer.OnRunning", 0, 0, 0) EXCEPT !.ret = 1])

\* A Suspend that does not look at the state.
QuicServer_Suspend_Always(s) ==
  [Emit([s EXCEPT !.state_ = "kSuspended"], "observer.OnSuspended",
        0, 0, 0) EXCEPT !.ret = 1]

QuicServer_Start(s) ==
  IF s.state_ # "kStopped" THEN [s EXCEPT !.ret = 0]
  ELSE AndThen(AndThen(QuicConnectionFactory_SetServerDelegate(
                 [s EXCEPT !.state_ = "kRunning"], TRUE),
               LAMBDA s1 : QuicServer_Cleanup(s1)),
           LAMBDA s2 :
             [Emit(s2, "observer.OnRunning", 0, 0, 0) EXCEPT !.ret = 1])

QuicServer_Stop(s) ==
  IF s.state_ # "kRunning" /\ s.state_ # "kSuspended"
  THEN [s EXCEPT !.ret = 0]
  ELSE AndThen(AndThen(AndThen(QuicConnectionFactory_SetServerDelegate(s, FALSE),
                   LAMBDA s1 : QuicServer_CloseAllConnections(s1)),
               LAMBDA s2 :
                 QuicServer_Cleanup([s2 EXCEPT !.state_ = "kStopped"])),
           LAMBDA s3 :
             [Emit(s3, "observer.OnStopped", 0, 0, 0) EXCEPT !.ret = 1])

QuicServer_Suspend(s) ==
  IF s.state_ # "kRunning" THEN [s EXCEPT !.ret = 0]
  ELSE [Emit([s EXCEPT !.state_ = "kSuspended"], "observer.OnSuspended",
             0, 0, 0) EXCEPT !.ret = 1]

QuicServer_Resume(s) ==
  IF s.state_ # "kSuspended" THEN [s EXCEPT !.ret = 0]
  ELSE [Emit([s EXCEPT !.state_ = "kRunning"], "observer.OnRunning",
             0, 0, 0) EXCEPT !.ret = 1]

\* ------------------------------------------------------------------------
\* The stream manager's side of the connection events.
ServiceConnectionDelegate_OnCryptoHandshakeComplete(s, d) ==
  AndThen(IF s.role = "client"
      THEN QuicClient_OnCryptoHandshakeComplete(s, d)
      ELSE QuicServer_OnCryptoHandshakeComplete(s, d),
      LAMBDA s1 : [s1 EXCEPT !.quic[d].instance_id_ = s1.out])

\* NextStreamDelegate(stream_id) followed by OnIncomingStream(stream).
ServiceConnectionDelegate_OnIncomingStream(s, d) ==
  LET stream_id == s.quic[d].next_stream_id
      h == Len(s.pcs) + 1
      pending_connection_ ==
          [instance_id |-> s.quic[d].instance_id_, id |-> stream_id,
           stream |-> <<d, stream_id>>, destroyed |-> FALSE,
           observer |-> FALSE, made_on |-> d]
  IN Then(ServiceConnectionDelegate_AddStreamPair(
            [s EXCEPT !.quic[d].next_stream_id = @ + 1,
                      !.pcs = Append(@, pending_connection_)],
            d, stream_id,
            [protocol_connection_id |-> pending_connection_.id,
             protocol_connection |-> h]),
          LAMBDA s2 :
            IF s.role = "client" THEN QuicClient_OnIncomingStream(s2, h)
            ELSE QuicServer_OnIncomingStream(s2, h))

\* InstanceRequestIds::GetNextRequestId: per instance, ids of one parity.
InstanceRequestIds_GetNextRequestId(s, instance_id) ==
  LET next_request_id == IF instance_id \in DOMAIN s.instance_request_ids_
                         THEN s.instance_request_ids_[instance_id] ELSE 0
  IN [s EXCEPT !.instance_request_ids_ =
                   Assign(@, instance_id, next_request_id + 2),
               !.out = next_request_id +
                       (IF s.role = "server" THEN 1 ELSE 0)]

\* ------------------------------------------------------------------------
\* Actions of the endpoint specification.
WithinBounds(s) ==
  /\ Len(s.quic) <= s.budget.conns
  /\ Len(s.pcs) <= s.budget.handles
  /\ s.next_request_id_ <= s.budget.requests + 1
  /\ s.nchunks <= s.budget.chunks
  /\ s.starts <= s.budget.starts

Apply(s, op, name, arg) ==
  /\ ~crashed
  /\ WithinBounds(s)
  /\ role' = s.role
  /\ state_' = s.state_
  /\ crashed' = s.crashed
  /\ instance_map_' = s.instance_map_
  /\ next_instance_id_' = s.next_instance_id_
  /\ next_request_id_' = s.next_request_id_
  /\ instance_infos_' = s.instance_infos_
  /\ instance_request_ids_' = s.instance_request_ids_
  /\ pending_connections_' = s.pending_connections_
  /\ connections_' = s.connections_
  /\ delete_connections_' = s.delete_connections_
  /\ pending_connection_delegate_' = s.pending_connection_delegate_
  /\ server_delegate_' = s.server_delegate_
  /\ cleanup_alarm_' = s.cleanup_alarm_
  /\ quic' = s.quic
  /\ pcs' = s.pcs
  /\ req' = s.req
  /\ issued' = s.issued
  /\ epoch' = s.epoch
  /\ hist' = s.hist
  /\ nchunks' = s.nchunks
  /\ starts' = s.starts
  /\ last' = [op |-> op, name |-> name, arg |-> arg, ret |-> s.ret,
              out |-> s.out, events |-> s.events]
  /\ UNCHANGED <<budget, auth, peer, factory, demuxer, view>>

Conns == 1..Len(quic)
Handles == 1..Len(pcs)
LiveHandles == {h \in Handles : ~pcs[h].destroyed}

\* History: successful Start() calls, and the ids issued before the last
\* successful Stop().
CountStart(s) == [s EXCEPT !.starts = @ + s.ret]

MarkEpoch(s) == IF s.ret = 1 THEN [s EXCEPT !.epoch = Len(s.issued)] ELSE s

Start ==
  Apply(CountStart(IF role = "client" THEN QuicClient_Start(EP)
                   ELSE QuicServer_Start(EP)), "Start", "", 0)

Stop ==
  Apply(MarkEpoch(IF role = "client" THEN QuicClient_Stop(EP)
                  ELSE QuicServer_Stop(EP)), "Stop", "", 0)

Suspend == role = "server" /\ Apply(QuicServer_Suspend(EP), "Suspend", "", 0)

Resume == role = "server" /\ Apply(QuicServer_Resume(EP), "Resume", "", 0)

CleanupAlarm ==
  /\ cleanup_alarm_
  /\ LET s == [EP EXCEPT !.cleanup_alarm_ = FALSE]
     IN Apply(IF role = "client" THEN QuicClient_Cleanup(s)
              ELSE QuicServer_Cleanup(s), "Cleanup", "", 0)

Connect ==
  /\ role = "client"
  /\ \E n \in Names \cup {Unknown}, ok \in BOOLEAN :
       Apply(QuicClient_Connect(EP, n, ok), "Connect", n, 0)

\* History: CancelConnectRequest(r) has returned.
MarkCancelled(s, r) ==
  IF r \in DOMAIN s.req THEN [s EXCEPT !.req[r].cancelled = TRUE] ELSE s

CancelConnectRequest ==
  /\ role = "client"
  /\ \E r \in 1..next_request_id_ :
       Apply(MarkCancelled(QuicClient_CancelConnectRequest(EP, r), r),
             "CancelConnectRequest", "", r)

CreateProtocolConnection ==
  \E id \in 0..MaxConns :
    Apply(IF role = "client" THEN QuicClient_CreateProtocolConnection(EP, id)
          ELSE QuicServer_CreateProtocolConnection(EP, id),
          "CreateProtocolConnection", "", id)

Write ==
  \E h \in LiveHandles :
    Apply(QuicProtocolConnection_Write(EP, h, 1), "Write", "", h)

CloseWriteEnd ==
  \E h \in LiveHandles :
    Apply(QuicProtocolConnection_CloseWriteEnd(EP, h), "CloseWriteEnd", "", h)

SetObserver ==
  \E h \in LiveHandles :
    /\ ~pcs[h].observer
    /\ Apply([EP EXCEPT !.pcs[h].observer = TRUE], "SetObserver", "", h)

DestroyProtocolConnection ==
  \E h \in LiveHandles :
    Apply(QuicProtocolConnection_Destroy(EP, h),
          "DestroyProtocolConnection", "", h)

GetNextRequestId ==
  \E i \in DOMAIN connections_ :
    /\ i \notin DOMAIN instance_request_ids_
    /\ Apply(InstanceRequestIds_GetNextRequestId(EP, i),
             "GetNextRequestId", "", i)

\* The factory's dispatcher accepts a connection from a new source: it asks
\* for the delegate, then hands the connection over.
NextConnectionDelegate ==
  /\ role = "server"
  /\ server_delegate_
  /\ pending_connection_delegate_ = 0
  /\ \E n \in Names :
       Apply(QuicServer_NextConnectionDelegate(EP, n),
             "NextConnectionDelegate", n, 0)

OnIncomingConnection ==
  /\ role = "server"
  /\ pending_connection_delegate_ # 0
  /\ Apply(QuicServer_OnIncomingConnection(EP, pending_connection_delegate_),
           "OnIncomingConnection", "", pending_connection_delegate_)

\* Events of the QUIC layer on a connection that still exists.
OnCryptoHandshakeComplete ==
  \E c \in Conns :
    /\ quic[c].owner = "pending" /\ ~quic[c].hs /\ ~quic[c].closed
    /\ Apply(ServiceConnectionDelegate_OnCryptoHandshakeComplete(
               [EP EXCEPT !.quic[c].hs = TRUE], c),
             "OnCryptoHandshakeComplete", quic[c].name, c)

OnConnectionClosed ==
  \E c \in Conns :
    /\ quic[c].owner \in {"pending", "established"} /\ ~quic[c].closed
    /\ Apply(QuicConnection_OnConnectionClosed(EP, c),
             "OnConnectionClosed", "", c)

OnIncomingStream ==
  \E c \in Conns :
    /\ quic[c].owner = "established" /\ ~quic[c].closed
    /\ Apply(ServiceConnectionDelegate_OnIncomingStream(EP, c),
             "OnIncomingStream", "", c)

StreamObjects(c) ==
  DOMAIN quic[c].streams_ \cup
  {quic[c].closed_streams_[i].stream_id :
     i \in 1..Len(quic[c].closed_streams_)}

\* History: the chunk has arrived on stream k; is_live tells whether the
\* stream was in the live map then.
RecordArrived(s, k, bytes, is_live) ==
  IF s.crashed THEN s
  ELSE [s EXCEPT !.hist = Assign(@, k,
          [HistOf(s, k) EXCEPT
             !.arrived = Append(@, bytes),
             !.live = IF is_live THEN Append(@, bytes) ELSE @])]

OnReceived ==
  \E c \in Conns :
    /\ quic[c].owner # "destroyed"
    /\ \E stream_id \in StreamObjects(c),
            bytes \in {b \in Chunks : b = nchunks + 1} :
         Apply([RecordArrived(
                  ServiceConnectionDelegate_OnReceived(
                    [EP EXCEPT !.nchunks = @ + 1], c, stream_id, bytes),
                  <<c, stream_id>>, bytes,
                  stream_id \in DOMAIN quic[c].streams_)
                  EXCEPT !.out = c],
               "OnReceived", "", stream_id)

\* A stream object of connection c reports its close; last.out names the
\* connection.
OnClose ==
  \E c \in Conns :
    /\ quic[c].owner # "destroyed"
    /\ \E stream_id \in StreamObjects(c) :
         Apply([ServiceConnectionDelegate_OnClose(EP, c, stream_id)
                  EXCEPT !.out = c],
               "OnClose", "", stream_id)

InitEndpoint ==
  /\ role \in {"client", "server"}
  /\ state_ = "kStopped"
  /\ crashed = FALSE
  /\ instance_map_ = EmptyMap
  /\ next_instance_id_ = 1
  /\ next_request_id_ = 1
  /\ instance_infos_ = Names
  /\ instance_request_ids_ = EmptyMap
  /\ pending_connections_ = EmptyMap
  /\ connections_ = EmptyMap
  /\ delete_connections_ = <<>>
  /\ pending_connection_delegate_ = 0
  /\ server_delegate_ = FALSE
  /\ cleanup_alarm_ = FALSE
  /\ quic = <<>>
  /\ pcs = <<>>
  /\ req = EmptyMap
  /\ issued = <<>>
  /\ epoch = 0
  /\ hist = EmptyMap
  /\ nchunks = 0
  /\ starts = 0
  /\ last = [op |-> "Init", name |-> "", arg |-> 0, ret |-> 0, out |-> 0,
             events |-> <<>>]

\* The connection-level specification: lifecycle, connecting, promotion,
\* closing and cleanup of connections, for a client and for a server.
Init ==
  /\ InitEndpoint
  /\ budget = [conns |-> MaxConns, handles |-> MaxHandles,
               requests |-> MaxRequests, chunks |-> 0, starts |-> MaxStarts]
  /\ auth = NoAuth /\ peer = NoPeer /\ factory = NoFactory
  /\ demuxer = NoDemuxer /\ view = NoView

Next ==
  \/ Start \/ Stop \/ Suspend \/ Resume \/ CleanupAlarm
  \/ Connect \/ CancelConnectRequest
  \/ CreateProtocolConnection \/ GetNextRequestId
  \/ NextConnectionDelegate \/ OnIncomingConnection
  \/ OnCryptoHandshakeComplete \/ OnConnectionClosed

Spec == Init /\ [][Next]_vars

\* The stream-level specification: one connection, its streams, their
\* handles and the data arriving on them.
InitStream ==
  /\ InitEndpoint
  /\ budget = [conns |-> StreamConns, handles |-> MaxHandles,
               requests |-> StreamRequests, chunks |-> MaxChunks,
               starts |-> StreamStarts]
  /\ auth = NoAuth /\ peer = NoPeer /\ factory = NoFactory
  /\ demuxer = NoDemuxer /\ view = NoView

NextStream ==
  \/ Start \/ Stop \/ Suspend \/ Resume \/ CleanupAlarm
  \/ Connect \/ NextConnectionDelegate \/ OnIncomingConnection
  \/ OnCryptoHandshakeComplete \/ OnConnectionClosed
  \/ CreateProtocolConnection \/ Write \/ CloseWriteEnd \/ SetObserver
  \/ DestroyProtocolConnection
  \/ OnIncomingStream \/ OnReceived \/ OnClose

SpecStream == InitStream /\ [][NextStream]_vars

\* ------------------------------------------------------------------------
\* Authentication: AuthenticationBase and AuthenticationBob.
MaxAuthCalls == 3       \* StartAuthentication and OnStreamMessage calls
GroupModulus == 23      \* the group standing for the curve: Z_23^*
GroupGenerator == 5     \* its generator, standing for the curve's base point
Sextet == 64            \* base64: six bits a character

Fingerprints == {<<3>>, <<1, 4>>}   \* agent fingerprints, as base64 digits
Tokens == {0, 1}                    \* 0 is the empty string
Passwords == {0, 1}                 \* 0 is the empty string
PeerPrivateKeys == {2, 7}
ZeroKey == <<0, 0>>                 \* std::array<uint8_t, 64> shared_key = {}
ShortValue == <<0>>                 \* a byte string shorter than 64 bytes

RECURSIVE Base64Decode(_)
Base64Decode(f) ==
  IF f = <<>> THEN 0
  ELSE Base64Decode(SubSeq(f, 1, Len(f) - 1)) * Sextet + f[Len(f)]

RECURSIVE Pow(_, _)
Pow(b, e) == IF e = 0 THEN 1 ELSE (b * Pow(b, e - 1)) % GroupModulus

AuthenticationBase_ComputePrivateKey(fingerprint) == Base64Decode(fingerprint)

AuthenticationBase_ComputePublicValue(self_private_key) ==
  Pow(GroupGenerator, self_private_key)

\* o2i_ECPublicKey accepts the peer's public value.
ValidPublicValue(v) == v \in 1..(GroupModulus - 1)

\* A shared key hashed from the own public value instead of the ECDH secret.
AuthenticationBase_ComputeSharedKey_OwnValue(self_private_key, peer_public_value, password) ==
  <<Pow(GroupGenerator, self_private_key), password>>

\* A shared key that leaves the password out of the hash.
AuthenticationBase_ComputeSharedKey_NoPassword(self_private_key, peer_public_value, password) ==
  <<Pow(peer_public_value, self_private_key), 0>>

\* SHA512(ECDH(self_private_key, peer_public_value) || password); the hash
\* is one-to-one on the values of the model.
AuthenticationBase_ComputeSharedKey(self_private_key, peer_public_value, password) ==
  <<Pow(peer_public_value, self_private_key), password>>

AuthMsg(type, wire, has_token, token, psk_status, public_value, value, result) ==
  [type |-> type, wire |-> wire, has_token |-> has_token, token |-> token,
   psk_status |-> psk_status, public_value |-> public_value,
   value |-> value, result |-> result]

NoMsg == AuthMsg("none", "ok", FALSE, 0, "", 0, ZeroKey, "")

AuthSpake2Handshake(has_token, token, psk_status, public_value) ==
  AuthMsg("kAuthSpake2Handshake", "ok", has_token, token, psk_status,
          public_value, ZeroKey, "")

AuthSpake2Confirmation(confirmation_value) ==
  AuthMsg("kAuthSpake2Confirmation", "ok", FALSE, 0, "", 0,
          confirmation_value, "")

AuthStatus(result) ==
  AuthMsg("kAuthStatus", "ok", FALSE, 0, "", 0, ZeroKey, result)

\* A message whose bytes do not decode: wire is "eof" (kParserEOF) or "bad".
Undecodable(type, wire) == AuthMsg(type, wire, FALSE, 0, "", 0, ZeroKey, "")

AuthEmit(a, e, code, msg) ==
  [a EXCEPT !.events = Append(@, [e |-> e, code |-> code, msg |-> msg])]

AuthAbort(a) == [a EXCEPT !.crashed = TRUE]

\* History: a callback has fired before.
Terminal(a) == a.succeed + a.failed > 0

Delegate_OnAuthenticationSucceed(a) ==
  AuthEmit([a EXCEPT !.succeed = @ + 1, !.after = @ \/ Terminal(a)],
           "OnAuthenticationSucceed", "", NoMsg)

Delegate_OnAuthenticationFailed(a, code) ==
  AuthEmit([a EXCEPT !.failed = @ + 1, !.after = @ \/ Terminal(a)],
           "OnAuthenticationFailed", code, NoMsg)

ProtocolConnection_WriteMessage(a, message) ==
  AuthEmit([a EXCEPT !.writes = @ + 1, !.after = @ \/ Terminal(a)],
           "WriteMessage", "", message)

AuthenticationBase_SetSender(a, sender) == [a EXCEPT !.sender = sender]

AuthenticationBase_SetReceiver(a, receiver) ==
  [a EXCEPT !.receiver = receiver]

AuthenticationBase_SetAuthenticationToken(a, auth_token) ==
  [a EXCEPT !.auth_token = auth_token]

AuthenticationBase_SetPassword(a, password) ==
  [a EXCEPT !.password = password]

AuthenticationBob_StartAuthentication(a) ==
  IF ~a.sender
  THEN Delegate_OnAuthenticationFailed(a, "kNoActiveConnection")
  ELSE ProtocolConnection_WriteMessage(a,
         AuthSpake2Handshake(TRUE, a.auth_token, "kPskNeedsPresentation",
           AuthenticationBase_ComputePublicValue(
             AuthenticationBase_ComputePrivateKey(a.fingerprint_))))

\* Decode* returned a negative result.
\* A decoder result handling that takes a truncated message for a
\* malformed one.
AuthenticationBob_DecodeFailed_EofIsError(a, wire) ==
  [Delegate_OnAuthenticationFailed(a, "kCborParsing")
     EXCEPT !.ret = "kCborParsing"]

AuthenticationBob_DecodeFailed(a, wire) ==
  IF wire = "eof"                                 \* msgs::kParserEOF
  THEN [a EXCEPT !.ret = "kCborIncompleteMessage"]
  ELSE [Delegate_OnAuthenticationFailed(a, "kCborParsing")
          EXCEPT !.ret = "kCborParsing"]

\* A handshake handler that answers psk_status Shown without storing the
\* shared key.
AuthenticationBob_OnPskStatus_NoStore(a, handshake) ==
  IF handshake.psk_status \notin {"kPskShown", "kPskInput"}
  THEN [Delegate_OnAuthenticationFailed(a, "kInvalidAnswer")
          EXCEPT !.ret = "result"]
  ELSE IF ~ValidPublicValue(handshake.public_value) THEN AuthAbort(a)
  ELSE IF handshake.psk_status = "kPskShown"
  THEN [ProtocolConnection_WriteMessage(a,
          AuthSpake2Handshake(TRUE, handshake.token, "kPskInput",
            AuthenticationBase_ComputePublicValue(
              AuthenticationBase_ComputePrivateKey(a.fingerprint_))))
        EXCEPT !.ret = "result"]
  ELSE [ProtocolConnection_WriteMessage(a,
          AuthSpake2Confirmation(
            AuthenticationBase_ComputeSharedKey(
              AuthenticationBase_ComputePrivateKey(a.fingerprint_),
              handshake.public_value, a.password)))
        EXCEPT !.ret = "result"]

\* A handshake handler that answers every psk_status other than Shown as
\* if it were Input.
AuthenticationBob_OnPskStatus_AnswerAny(a, handshake) ==
  IF ~ValidPublicValue(handshake.public_value) THEN AuthAbort(a)
  ELSE IF handshake.psk_status = "kPskShown"
  THEN [ProtocolConnection_WriteMessage(
          [a EXCEPT !.shared_key =
             AuthenticationBase_ComputeSharedKey(
               AuthenticationBase_ComputePrivateKey(a.fingerprint_),
               handshake.public_value, a.password)],
          AuthSpake2Handshake(TRUE, handshake.token, "kPskInput",
            AuthenticationBase_ComputePublicValue(
              AuthenticationBase_ComputePrivateKey(a.fingerprint_))))
        EXCEPT !.ret = "result"]
  ELSE [ProtocolConnection_WriteMessage(a,
          AuthSpake2Confirmation(
            AuthenticationBase_ComputeSharedKey(
              AuthenticationBase_ComputePrivateKey(a.fingerprint_),
              handshake.public_value, a.password)))
        EXCEPT !.ret = "result"]

\* case msgs::Type::kAuthSpake2Handshake, the token accepted: the branches
\* on psk_status.
AuthenticationBob_OnPskStatus(a, handshake) ==
  LET private_key == AuthenticationBase_ComputePrivateKey(a.fingerprint_)
  IN IF handshake.psk_status = "kPskShown"
     THEN IF ~ValidPublicValue(handshake.public_value)
          THEN AuthAbort(a)                       \* OSP_CHECK(o2i_ECPublicKey)
          ELSE [ProtocolConnection_WriteMessage(
                  [a EXCEPT !.shared_key =
                     AuthenticationBase_ComputeSharedKey(
                       private_key, handshake.public_value, a.password)],
                  AuthSpake2Handshake(TRUE, handshake.token, "kPskInput",
                    AuthenticationBase_ComputePublicValue(private_key)))
                EXCEPT !.ret = "result"]
     ELSE IF handshake.psk_status = "kPskInput"
     THEN IF ~ValidPublicValue(handshake.public_value)
          THEN AuthAbort(a)                       \* OSP_CHECK(o2i_ECPublicKey)
          ELSE [ProtocolConnection_WriteMessage(a,
                  AuthSpake2Confirmation(
                    AuthenticationBase_ComputeSharedKey(
                      private_key, handshake.public_value, a.password)))
                EXCEPT !.ret = "result"]
     ELSE [Delegate_OnAuthenticationFailed(a, "kInvalidAnswer")
             EXCEPT !.ret = "result"]

\* A handshake handler that does not look at the initiation token.
AuthenticationBob_OnHandshake_TokenUnchecked(a, handshake) ==
  AuthenticationBob_OnPskStatus(a, handshake)

\* case msgs::Type::kAuthSpake2Handshake, decoded.
AuthenticationBob_OnHandshake(a, handshake) ==
  IF ~handshake.has_token \/ handshake.token # a.auth_token
  THEN [Delegate_OnAuthenticationFailed(a, "kInvalidAnswer")
          EXCEPT !.ret = "result"]
  ELSE AuthenticationBob_OnPskStatus(a, handshake)

\* std::equal(shared_key.begin(), shared_key.end(), value.begin()): reading
\* a value shorter than the key is undefined, and ub is what it yields.
KeyEquals(shared_key, confirmation_value, ub) ==
  IF confirmation_value = ShortValue THEN ub
  ELSE shared_key = confirmation_value

\* A confirmation handler that accepts whatever it receives.
AuthenticationBob_OnConfirmation_AlwaysAccept(a, confirmation, ub) ==
  [Delegate_OnAuthenticationSucceed(
     ProtocolConnection_WriteMessage(a, AuthStatus("kAuthenticated")))
   EXCEPT !.ret = "result"]

\* case msgs::Type::kAuthSpake2Confirmation, decoded.
AuthenticationBob_OnConfirmation(a, confirmation, ub) ==
  IF KeyEquals(a.shared_key, confirmation.value, ub)
  THEN [Delegate_OnAuthenticationSucceed(
          ProtocolConnection_WriteMessage(a, AuthStatus("kAuthenticated")))
        EXCEPT !.ret = "result"]
  ELSE [Delegate_OnAuthenticationFailed(
          ProtocolConnection_WriteMessage(a, AuthStatus("kProofInvalid")),
          "kInvalidAnswer")
        EXCEPT !.ret = "result"]

\* case msgs::Type::kAuthStatus, decoded.
AuthenticationBob_OnStatus(a, status) ==
  IF status.result = "kAuthenticated"
  THEN [Delegate_OnAuthenticationSucceed(a) EXCEPT !.ret = "result"]
  ELSE [Delegate_OnAuthenticationFailed(a, "kInvalidAnswer")
          EXCEPT !.ret = "result"]

AuthTypes == {"kAuthSpake2Handshake", "kAuthSpake2Confirmation",
              "kAuthStatus"}

AuthenticationBob_OnStreamMessage(a, instance_id, m, ub) ==
  IF a.instance_id_ # instance_id
  THEN AuthAbort(a)                    \* OSP_CHECK_EQ(instance_id_, instance_id)
  ELSE IF ~a.sender
  THEN [Delegate_OnAuthenticationFailed(a, "kNoActiveConnection")
          EXCEPT !.ret = "kNoActiveConnection"]
  ELSE IF m.type \notin AuthTypes
  THEN [Delegate_OnAuthenticationFailed(a, "kCborParsing")
          EXCEPT !.ret = "kCborParsing"]
  ELSE IF m.wire # "ok" THEN AuthenticationBob_DecodeFailed(a, m.wire)
  ELSE IF m.type = "kAuthSpake2Handshake"
  THEN AuthenticationBob_OnHandshake(a, m)
  ELSE IF m.type = "kAuthSpake2Confirmation"
  THEN AuthenticationBob_OnConfirmation(a, m, ub)
  ELSE AuthenticationBob_OnStatus(a, m)

\* ------------------------------------------------------------------------
\* The authentication specification: one AuthenticationBob session, its
\* setup calls and the messages the demuxer hands to it.
PeerPublicValues ==
  {0} \cup {AuthenticationBase_ComputePublicValue(k) : k \in PeerPrivateKeys}

\* What a peer can send as confirmation value to the session.
ConfirmationValues ==
  {ZeroKey, ShortValue} \cup
  {AuthenticationBase_ComputeSharedKey(k,
     AuthenticationBase_ComputePublicValue(
       AuthenticationBase_ComputePrivateKey(auth.fingerprint_)), pw) :
     k \in PeerPrivateKeys, pw \in Passwords}

InboundMessages ==
  {AuthSpake2Handshake(tk[1], tk[2], psk, pv) :
     tk \in {<<FALSE, 0>>} \cup ({TRUE} \X Tokens),
     psk \in {"kPskNeedsPresentation", "kPskShown", "kPskInput"},
     pv \in PeerPublicValues}
  \cup {AuthSpake2Confirmation(v) : v \in ConfirmationValues}
  \cup {AuthStatus(r) : r \in {"kAuthenticated", "kProofInvalid"}}
  \cup {Undecodable(ty, w) : ty \in AuthTypes, w \in {"eof", "bad"}}
  \cup {Undecodable("kAgentInfoRequest", "ok")}

AuthEP == [auth EXCEPT !.events = <<>>, !.ret = "", !.msg = NoMsg, !.arg = 0]

AuthApply(a, op) ==
  /\ ~auth.crashed
  /\ a.calls <= MaxAuthCalls
  /\ auth' = [a EXCEPT !.op = op]
  /\ UNCHANGED <<evars, peer, factory, demuxer, view>>

SetSender ==
  \E sender \in BOOLEAN \ {auth.sender} :
    AuthApply(AuthenticationBase_SetSender(AuthEP, sender), "SetSender")

SetReceiver ==
  \E receiver \in BOOLEAN \ {auth.receiver} :
    AuthApply(AuthenticationBase_SetReceiver(AuthEP, receiver), "SetReceiver")

SetAuthenticationToken ==
  \E auth_token \in Tokens \ {auth.auth_token} :
    AuthApply(AuthenticationBase_SetAuthenticationToken(AuthEP, auth_token),
              "SetAuthenticationToken")

SetPassword ==
  \E password \in Passwords \ {auth.password} :
    AuthApply(AuthenticationBase_SetPassword(AuthEP, password), "SetPassword")

StartAuthentication ==
  \E a \in {[AuthEP EXCEPT !.calls = @ + 1]} :
    AuthApply(AuthenticationBob_StartAuthentication(a), "StartAuthentication")

OnStreamMessage ==
  \E m \in InboundMessages, instance_id \in {auth.instance_id_, 0} :
    \E ub \in IF m.value = ShortValue THEN BOOLEAN ELSE {FALSE} :
      AuthApply(AuthenticationBob_OnStreamMessage(
                  [AuthEP EXCEPT !.calls = @ + 1, !.msg = m,
                                 !.arg = instance_id],
                  instance_id, m, ub),
                "OnStreamMessage")

InitAuth ==
  /\ InitEndpoint
  /\ role = "server"
  /\ budget = [conns |-> 0, handles |-> 0, requests |-> 0, chunks |-> 0,
               starts |-> 0]
  /\ \E fingerprint \in Fingerprints :
       auth = [instance_id_ |-> 1, fingerprint_ |-> fingerprint,
               sender |-> FALSE, receiver |-> FALSE, auth_token |-> 0,
               password |-> 0, shared_key |-> ZeroKey, crashed |-> FALSE,
               succeed |-> 0, failed |-> 0, writes |-> 0, after |-> FALSE,
               calls |-> 0, op |-> "Init", ret |-> "", events |-> <<>>,
               msg |-> NoMsg, arg |-> 0]
  /\ peer = NoPeer /\ factory = NoFactory /\ demuxer = NoDemuxer
  /\ view = NoView

NextAuth ==
  \/ SetSender \/ SetReceiver \/ SetAuthenticationToken \/ SetPassword
  \/ StartAuthentication \/ OnStreamMessage

SpecAuth == InitAuth /\ [][NextAuth]_vars

\* ------------------------------------------------------------------------
\* The exchange specification: an AuthenticationBob session (auth) and the
\* presenter it talks to (peer.alice) over a reliable in-order channel in
\* each direction.

\* AuthenticationAlice::StartAuthentication: the presenter has shown the PSK
\* and sends its handshake.
AuthenticationAlice_StartAuthentication(al) ==
  ProtocolConnection_WriteMessage(al,
    AuthSpake2Handshake(TRUE, al.auth_token, "kPskShown",
      AuthenticationBase_ComputePublicValue(
        AuthenticationBase_ComputePrivateKey(al.fingerprint_))))

\* AuthenticationAlice::OnStreamMessage: psk_status Input is answered with
\* the confirmation, a status ends the exchange.
AuthenticationAlice_OnStreamMessage(al, m) ==
  IF m.type = "kAuthSpake2Handshake" /\ m.psk_status = "kPskInput"
  THEN ProtocolConnection_WriteMessage(al,
         AuthSpake2Confirmation(
           AuthenticationBase_ComputeSharedKey(
             AuthenticationBase_ComputePrivateKey(al.fingerprint_),
             m.public_value, al.password)))
  ELSE IF m.type = "kAuthStatus" /\ m.result = "kAuthenticated"
  THEN Delegate_OnAuthenticationSucceed(al)
  ELSE Delegate_OnAuthenticationFailed(al, "kInvalidAnswer")

\* The messages a call wrote, in order.
Written(a) ==
  LET w == SelectSeq(a.events, LAMBDA ev : ev.e = "WriteMessage")
  IN [i \in 1..Len(w) |-> w[i].msg]

Session(instance_id, fingerprint, token, password) ==
  [instance_id_ |-> instance_id, fingerprint_ |-> fingerprint,
   sender |-> TRUE, receiver |-> TRUE, auth_token |-> token,
   password |-> password, shared_key |-> ZeroKey, crashed |-> FALSE,
   succeed |-> 0, failed |-> 0, writes |-> 0, after |-> FALSE,
   calls |-> 0, op |-> "Init", ret |-> "", events |-> <<>>,
   msg |-> NoMsg, arg |-> 0]

AliceStarts ==
  /\ ~peer.started
  /\ \E al \in {AuthenticationAlice_StartAuthentication(
                   [peer.alice EXCEPT !.events = <<>>])} :
       peer' = [peer EXCEPT !.started = TRUE,
                            !.alice = [al EXCEPT !.op = "StartAuthentication"],
                            !.toBob = @ \o Written(al)]
  /\ UNCHANGED <<evars, auth, factory, demuxer, view>>

BobReceives ==
  /\ peer.toBob # <<>> /\ ~auth.crashed
  /\ \E a \in {AuthenticationBob_OnStreamMessage(
                  [AuthEP EXCEPT !.calls = @ + 1, !.msg = Head(peer.toBob),
                                 !.arg = auth.instance_id_],
                  auth.instance_id_, Head(peer.toBob), FALSE)} :
       /\ auth' = [a EXCEPT !.op = "OnStreamMessage"]
       /\ peer' = [peer EXCEPT !.toBob = Tail(@),
                               !.toAlice = @ \o Written(a)]
  /\ UNCHANGED <<evars, factory, demuxer, view>>

AliceReceives ==
  /\ peer.toAlice # <<>>
  /\ \E al \in {AuthenticationAlice_OnStreamMessage(
                   [peer.alice EXCEPT !.events = <<>>,
                                      !.msg = Head(peer.toAlice)],
                   Head(peer.toAlice))} :
       peer' = [peer EXCEPT !.toAlice = Tail(@),
                            !.alice = [al EXCEPT !.op = "OnStreamMessage"],
                            !.toBob = @ \o Written(al)]
  /\ UNCHANGED <<evars, auth, factory, demuxer, view>>

InitPair ==
  /\ InitEndpoint
  /\ role = "server"
  /\ budget = [conns |-> 0, handles |-> 0, requests |-> 0, chunks |-> 0,
               starts |-> 0]
  /\ \E fb \in Fingerprints, tb \in Tokens, pb \in Passwords :
       auth = Session(1, fb, tb, pb)
  /\ \E fa \in Fingerprints, ta \in Tokens, pa \in Passwords :
       peer = [started |-> FALSE, alice |-> Session(2, fa, ta, pa),
               toBob |-> <<>>, toAlice |-> <<>>]
  /\ factory = NoFactory /\ demuxer = NoDemuxer
  /\ view = NoView

NextPair == AliceStarts \/ BobReceives \/ AliceReceives

SpecPair == InitPair /\ [][NextPair]_vars

\* ------------------------------------------------------------------------
\* QuicConnectionFactoryImpl: the UDP sockets it owns, the dispatcher of
\* each server socket and the table of open connections, keyed by the remote
\* endpoint. A factory serves a client (Connect) or a server
\* (SetServerDelegate and the connections its dispatchers spawn).
MaxSockets == 3             \* sockets a factory creates in a run
MaxFactoryConns == 3        \* connections made on a factory in a run
MaxReads == 2               \* packets read between two other calls

RemoteEndpoints == {"E1", "E2"}

Range(seq) == {seq[i] : i \in 1..Len(seq)}

\* Sockets that some entry of the connection table refers to.
ReferencedSockets(f) ==
  {f.connections_[e].socket : e \in DOMAIN f.connections_}

FactoryEmit(f, e, a) == [f EXCEPT !.events = Append(@, [e |-> e, a |-> a])]

FactoryAbort(f) == [f EXCEPT !.crashed = TRUE]

\* UdpSocket::Create succeeded: the socket gets the next id.
UdpSocket_Create(f) == [f EXCEPT !.nsockets = @ + 1]

\* A QuicConnectionImpl is made: it gets the next id and is open.
QuicConnectionImpl_New(f) ==
  [f EXCEPT !.nconns = @ + 1, !.open = @ \cup {f.nconns + 1}]

\* The loop body of SetServerDelegate for one endpoint.
QuicConnectionFactoryImpl_AddServerSocket(f, create_result) ==
  IF ~create_result THEN f
  ELSE [UdpSocket_Create(f) EXCEPT
          !.dispatchers_ = @ \cup {f.nsockets + 1},
          !.sockets_ = Append(@, f.nsockets + 1)]

\* endpoints is the number of endpoints handed over (at most one here).
QuicConnectionFactoryImpl_SetServerDelegate(f, delegate, endpoints, create_result) ==
  IF delegate = f.server_delegate_
  THEN FactoryAbort(f)          \* OSP_CHECK(!delegate != !server_delegate_)
  ELSE IF endpoints = 0 THEN [f EXCEPT !.server_delegate_ = delegate]
  ELSE QuicConnectionFactoryImpl_AddServerSocket(
         [f EXCEPT !.server_delegate_ = delegate], create_result)

QuicConnectionFactoryImpl_Connect(f, remote_endpoint, create_result) ==
  IF ~create_result THEN [f EXCEPT !.ret = 0]
  ELSE [QuicConnectionImpl_New(UdpSocket_Create(f)) EXCEPT
          !.connections_ =
              Emplace(@, remote_endpoint,
                         [connection |-> f.nconns + 1,
                          socket |-> f.nsockets + 1]),
          !.sockets_ = Append(@, f.nsockets + 1),
          !.ret = f.nconns + 1]

\* QuicDispatcherImpl::ProcessPacket for a packet of a source without a
\* connection: the dispatcher may spawn a connection, which it records in
\* the table (through connection()) with the socket the packet came on.
QuicDispatcherImpl_ProcessPacket(f, socket, source, spawn) ==
  IF source \in DOMAIN f.connections_ \/ ~spawn
  THEN FactoryEmit(f, "dispatcher.ProcessPacket", socket)
  ELSE [QuicConnectionImpl_New(
          FactoryEmit(f, "dispatcher.ProcessPacket", socket)) EXCEPT
          !.connections_ =
              Emplace(@, source, [connection |-> f.nconns + 1,
                                     socket |-> socket])]

\* deref is what calling through a null dispatcher pointer yields: a crash
\* or a call that does nothing.
QuicConnectionFactoryImpl_OnRead(f, socket, source, is_error, spawn, deref) ==
  IF is_error THEN f
  ELSE IF source \notin DOMAIN f.connections_ /\ socket \notin f.dispatchers_
  THEN f
  ELSE IF source \notin DOMAIN f.connections_ \/ f.server_delegate_
  THEN IF ~f.server_delegate_ THEN FactoryAbort(f)   \* OSP_CHECK(server_delegate_)
       ELSE IF socket \notin f.dispatchers_
       THEN (IF deref THEN FactoryAbort(f) ELSE f)
       ELSE QuicDispatcherImpl_ProcessPacket(f, socket, source, spawn)
  ELSE FactoryEmit(f, "connection.OnRead", f.connections_[source].connection)

\* An OnConnectionClosed that releases the socket without looking for other
\* connections on it.
QuicConnectionFactoryImpl_ReleaseSocket_Always(f, socket) ==
  IF socket \notin Range(f.sockets_)
  THEN FactoryAbort(f)
  ELSE [f EXCEPT !.dispatchers_ = @ \ {socket},
                 !.sockets_ = SelectSeq(@, LAMBDA s : s # socket)]

\* The second half of OnConnectionClosed, entry erased.
QuicConnectionFactoryImpl_ReleaseSocket(f, socket) ==
  IF socket \in ReferencedSockets(f) THEN f
  ELSE IF socket \notin Range(f.sockets_)
  THEN FactoryAbort(f)          \* OSP_CHECK(socket_it != sockets_.end())
  ELSE [f EXCEPT !.dispatchers_ = @ \ {socket},
                 !.sockets_ = SelectSeq(@, LAMBDA s : s # socket)]

\* The entries of connection in the table.
EntriesOf(f, connection) ==
  {e \in DOMAIN f.connections_ : f.connections_[e].connection = connection}

QuicConnectionFactoryImpl_OnConnectionClosed(f, connection) ==
  IF EntriesOf(f, connection) = {}
  THEN FactoryAbort(f)          \* OSP_CHECK(entry != connections_.end())
  ELSE QuicConnectionFactoryImpl_ReleaseSocket(
         [f EXCEPT !.connections_ =
            [e \in DOMAIN @ \ EntriesOf(f, connection) |-> @[e]]],
         f.connections_[CHOOSE e \in EntriesOf(f, connection) : TRUE].socket)

FactoryEP == [factory EXCEPT !.events = <<>>, !.ret = 0]

FactoryApply(f, op, arg) ==
  /\ ~factory.crashed
  /\ f.nsockets <= MaxSockets /\ f.nconns <= MaxFactoryConns
  /\ f.reads <= MaxReads
  /\ factory' = [f EXCEPT !.op = op, !.arg = arg]
  /\ UNCHANGED <<evars, auth, peer, demuxer, view>>

\* QuicServer::Start hands over its endpoint, QuicServer::Stop none.
FactorySetServerDelegate ==
  /\ factory.role = "server"
  /\ \E create_result \in BOOLEAN :
       FactoryApply(QuicConnectionFactoryImpl_SetServerDelegate(
                      [FactoryEP EXCEPT !.reads = 0],
                      ~factory.server_delegate_,
                      IF factory.server_delegate_ THEN 0 ELSE 1,
                      create_result),
                    "SetServerDelegate", 0)

FactoryConnect ==
  /\ factory.role = "client"
  /\ \E remote_endpoint \in RemoteEndpoints, create_result \in BOOLEAN :
       FactoryApply(QuicConnectionFactoryImpl_Connect(
                      [FactoryEP EXCEPT !.reads = 0], remote_endpoint,
                      create_result),
                    "Connect", remote_endpoint)

\* A socket the factory owns has read a packet, or failed to.
FactoryOnRead ==
  \E socket \in Range(factory.sockets_), source \in RemoteEndpoints :
    \E is_error, spawn, deref \in BOOLEAN :
      FactoryApply(QuicConnectionFactoryImpl_OnRead(
                     [FactoryEP EXCEPT !.reads = @ + 1], socket, source,
                     is_error, spawn, deref),
                   "OnRead", <<socket, source>>)

\* A connection that is open closes and tells the factory.
FactoryOnConnectionClosed ==
  \E connection \in factory.open :
    FactoryApply(QuicConnectionFactoryImpl_OnConnectionClosed(
                   [FactoryEP EXCEPT !.open = @ \ {connection},
                                     !.reads = 0],
                   connection),
                 "OnConnectionClosed", connection)

InitFactory ==
  /\ InitEndpoint
  /\ role = "server"
  /\ budget = [conns |-> 0, handles |-> 0, requests |-> 0, chunks |-> 0,
               starts |-> 0]
  /\ auth = NoAuth /\ peer = NoPeer /\ demuxer = NoDemuxer
  /\ view = NoView
  /\ \E r \in {"client", "server"} :
       factory = [role |-> r, server_delegate_ |-> FALSE, sockets_ |-> <<>>,
                  connections_ |-> EmptyMap, dispatchers_ |-> {},
                  crashed |-> FALSE, nsockets |-> 0, nconns |-> 0,
                  open |-> {}, reads |-> 0, op |-> "Init", arg |-> 0,
                  ret |-> 0, events |-> <<>>]

NextFactory ==
  \/ FactorySetServerDelegate \/ FactoryConnect
  \/ FactoryOnRead \/ FactoryOnConnectionClosed

SpecFactory == InitFactory /\ [][NextFactory]_vars

\* ------------------------------------------------------------------------
\* MessageDemuxer: the table of watchers by message type, in registration
\* order, and the dispatch of the messages of a buffer to them. A callback
\* may release watches while the dispatch is going on.
MaxWatches == 3             \* watches registered in a run
MaxMessages == 2            \* messages decoded from one buffer

MessageTypes == {"kAuthSpake2Handshake", "kAuthStatus"}

WatchIds == 1..MaxWatches

\* What a callback does when it is called: the watches it releases.
Reactions == {{}} \cup {{w} : w \in WatchIds}

\* SetDefaultMessageTypeWatch: the watcher goes to the end of the list and
\* the MessageWatch handle returned names it.
MessageDemuxer_SetDefaultMessageTypeWatch(d, type) ==
  [d EXCEPT !.watchers = Append(@, [id |-> d.next_watch, type |-> type]),
            !.next_watch = @ + 1,
            !.ret = d.next_watch]

\* A release that takes the watcher out of the table only after the
\* dispatch in progress.
MessageWatch_Release_Deferred(d, ws) ==
  [d EXCEPT !.released = @ \cup ws,
            !.watchers = IF d.dispatching THEN @
                         ELSE SelectSeq(@, LAMBDA w : w.id \notin ws)]

\* ~MessageWatch: the watch is revoked on drop.
MessageWatch_Release(d, ws) ==
  [d EXCEPT !.released = @ \cup ws,
            !.watchers = SelectSeq(@, LAMBDA w : w.id \notin ws)]

\* The watchers of type registered now that come after watcher after in
\* registration order.
WatchersAfter(d, type, after) ==
  {d.watchers[i].id : i \in {j \in 1..Len(d.watchers) :
                               /\ d.watchers[j].type = type
                               /\ d.watchers[j].id > after}}

\* The callback of watcher w is called with message number n of the
\* buffer; history: late tells whether w had been released before.
MessageCallback_OnStreamMessage(d, w, type, n, reaction) ==
  MessageWatch_Release(
    [d EXCEPT !.calls = Append(@, [watch |-> w, type |-> type, n |-> n,
                                   late |-> w \in d.released])],
    reaction[w] \ d.released)

\* One decoded message goes to the watchers of its type, in registration
\* order.
RECURSIVE MessageDemuxer_Dispatch(_, _, _, _, _)
MessageDemuxer_Dispatch(d, type, n, after, reaction) ==
  IF WatchersAfter(d, type, after) = {} THEN d
  ELSE MessageDemuxer_Dispatch(
         MessageCallback_OnStreamMessage(
           d, MinOf(WatchersAfter(d, type, after)), type, n, reaction),
         type, n, MinOf(WatchersAfter(d, type, after)), reaction)

\* The loop of OnStreamData over the messages that decode from the buffer.
RECURSIVE MessageDemuxer_HandleStreamBuffer(_, _, _, _)
MessageDemuxer_HandleStreamBuffer(d, messages, n, reaction) ==
  IF n > Len(messages) THEN d
  ELSE MessageDemuxer_HandleStreamBuffer(
         MessageDemuxer_Dispatch(d, messages[n], n, 0, reaction),
         messages, n + 1, reaction)

MessageDemuxer_OnStreamDataMessages(d, messages, reaction) ==
  [MessageDemuxer_HandleStreamBuffer([d EXCEPT !.dispatching = TRUE],
                                     messages, 1, reaction)
     EXCEPT !.dispatching = FALSE]

DemuxerEP == [demuxer EXCEPT !.calls = <<>>, !.ret = 0]

DemuxerApply(d, op, arg) ==
  /\ d.next_watch <= MaxWatches + 1
  /\ demuxer' = [d EXCEPT !.op = op, !.arg = arg]
  /\ UNCHANGED <<evars, auth, peer, factory, view>>

SetDefaultMessageTypeWatch ==
  \E type \in MessageTypes :
    DemuxerApply(MessageDemuxer_SetDefaultMessageTypeWatch(DemuxerEP, type),
                 "SetDefaultMessageTypeWatch", type)

\* The holder of a watch drops it while no dispatch is going on.
ReleaseWatch ==
  \E i \in 1..Len(demuxer.watchers) :
    DemuxerApply(MessageWatch_Release(DemuxerEP, {demuxer.watchers[i].id}),
                 "ReleaseWatch", demuxer.watchers[i].id)

\* Data arrives on a stream and the messages in it decode.
DemuxerOnStreamData ==
  \E k \in 1..MaxMessages :
    \E messages \in [1..k -> MessageTypes],
       reaction \in [WatchIds -> Reactions] :
      /\ \A w \in WatchIds :
           /\ w >= demuxer.next_watch => reaction[w] = {}
           /\ \A v \in reaction[w] : v < demuxer.next_watch
      /\ DemuxerApply(MessageDemuxer_OnStreamDataMessages(
                        DemuxerEP, messages, reaction),
                      "OnStreamData", messages)

InitDemuxer ==
  /\ InitEndpoint
  /\ role = "server"
  /\ budget = [conns |-> 0, handles |-> 0, requests |-> 0, chunks |-> 0,
               starts |-> 0]
  /\ auth = NoAuth /\ peer = NoPeer /\ factory = NoFactory
  /\ view = NoView
  /\ demuxer = [watchers |-> <<>>, next_watch |-> 1, released |-> {},
                dispatching |-> FALSE, calls |-> <<>>, op |-> "Init",
                arg |-> 0, ret |-> 0]

NextDemuxer == SetDefaultMessageTypeWatch \/ ReleaseWatch \/ DemuxerOnStreamData

SpecDemuxer == InitDemuxer /\ [][NextDemuxer]_vars

\* ------------------------------------------------------------------------
\* ByteView (platform/base/byte_view.h).  A view is a pointer and a length;
\* the pointer is an address, and the view under test spans a whole buffer
\* of count_ bytes (the constructor from a std::vector).  The accessors
\* check their arguments with assert(), which ends the program in a build
\* with assertions and does nothing in a build with NDEBUG.  Each accessor
\* is the set of outcomes of one call: a pointer computed outside the
\* buffer and its one-past-the-end address is undefined, so any address.

MaxSize == 3       \* sizes of the buffer under the view: 0..MaxSize
MaxBase == 2       \* addresses of the buffer: 1..MaxBase

Sizes == 0..MaxSize
Arguments == 0..(MaxSize + 1)
Pointers == 0..(MaxBase + MaxSize + 1)

ByteView(data, count) == [aborted |-> FALSE, data_ |-> data, count_ |-> count]

AssertionFailed == [aborted |-> TRUE, data_ |-> 0, count_ |-> 0]

ByteView_first(v, ndebug, count) ==
  IF ~ndebug /\ ~(count <= v.count_) THEN {AssertionFailed}
  ELSE {ByteView(v.data_, count)}

ByteView_last(v, ndebug, count) ==
  IF ~ndebug /\ ~(count <= v.count_) THEN {AssertionFailed}
  ELSE IF ~ndebug /\ ~(count # 0) THEN {AssertionFailed}
  ELSE IF count <= v.count_ THEN {ByteView(v.data_ + (v.count_ - count), count)}
  ELSE {ByteView(p, count) : p \in Pointers}

ByteView_subspan(v, ndebug, offset, count) ==
  IF ~ndebug /\ ~(offset + count < v.count_) THEN {AssertionFailed}
  ELSE IF offset <= v.count_ THEN {ByteView(v.data_ + offset, count)}
  ELSE {ByteView(p, count) : p \in Pointers}

\* The view under test, as a ByteView.
ThisView == ByteView(view.data_, view.count_)

ViewApply(results, op, offset, count) ==
  /\ ~view.aborted
  /\ \E r \in results :
       view' = [view EXCEPT !.op = op, !.offset = offset, !.count = count,
                            !.ret = r, !.aborted = r.aborted]
  /\ UNCHANGED <<evars, auth, peer, factory, demuxer>>

First ==
  \E count \in Arguments :
    ViewApply(ByteView_first(ThisView, view.ndebug, count), "first", 0, count)

Last ==
  \E count \in Arguments :
    ViewApply(ByteView_last(ThisView, view.ndebug, count), "last", 0, count)

Subspan ==
  \E offset \in Arguments, count \in Arguments :
    ViewApply(ByteView_subspan(ThisView, view.ndebug, offset, count),
              "subspan", offset, count)

InitByteView ==
  /\ InitEndpoint
  /\ role = "server"
  /\ budget = [conns |-> 0, handles |-> 0, requests |-> 0, chunks |-> 0,
               starts |-> 0]
  /\ auth = NoAuth /\ peer = NoPeer /\ factory = NoFactory
  /\ demuxer = NoDemuxer
  /\ \E data \in 1..MaxBase, size \in Sizes, ndebug \in BOOLEAN :
       view = [data_ |-> data, count_ |-> size, ndebug |-> ndebug,
               op |-> "Init", offset |-> 0, count |-> 0,
               ret |-> ByteView(data, size), aborted |-> FALSE]

NextByteView == First \/ Last \/ Subspan

SpecByteView == InitByteView /\ [][NextByteView]_vars

\* ------------------------------------------------------------------------
\* Properties.

\* C1: an authentication session fires exactly one of
\* OnAuthenticationSucceed / OnAuthenticationFailed, once, and after it has
\* fired no message causes another callback or another outbound write.
C1_OneCallbackThenTerminal ==
  /\ auth.succeed + auth.failed <= 1
  /\ ~auth.after

\* C2: over the whole lifetime of an endpoint, across Stop and re-Start, the
\* instance ids issued at promotion are strictly increasing, never 0 and
\* never issued twice.
C2_IdsIncreaseForever ==
  \A i, j \in 1..Len(issued) :
    /\ issued[i] # 0
    /\ i < j => issued[i] < issued[j]

\* C2, amended: between a Start and the next Stop the instance ids issued at
\* promotion are strictly increasing, never 0 and never issued twice; Stop
\* puts the counter back to 1.
C2_IdsIncreaseWithinRun ==
  /\ \A i \in 1..Len(issued) : issued[i] # 0
  /\ \A i, j \in (epoch + 1)..Len(issued) : i < j => issued[i] < issued[j]
  /\ (state_ = "kStopped" /\ ~crashed) => next_instance_id_ = 1

C2_TwoIdsInOneRun == Len(issued) >= epoch + 2

\* C3: once CancelConnectRequest(r) has returned, the callback of r is never
\* invoked with OnConnectionOpened(r, ...).
C3_NoOpenedAfterCancel == \A r \in DOMAIN req : ~req[r].late

C3_CancelledThenPromoted ==
  /\ last.op = "OnCryptoHandshakeComplete"
  /\ Len(quic) = 1
  /\ \E r1, r2 \in DOMAIN req :
       /\ req[r1].cancelled /\ req[r1].opened = 0
       /\ ~req[r2].cancelled /\ req[r2].opened = 1

\* The request is registered on a pending connection.
Waiting(r) ==
  \E n \in DOMAIN pending_connections_ :
    \E i \in 1..Len(pending_connections_[n].callbacks) :
      pending_connections_[n].callbacks[i] = r

\* C4: an accepted connect request that is not cancelled receives exactly one
\* terminal callback, OnConnectionOpened at promotion or OnConnectionFailed
\* at teardown: none while it waits on its pending connection, exactly one
\* of the two, once, when it waits no longer.
C4_ExactlyOneTerminalCallback ==
  ~crashed =>
    \A r \in DOMAIN req :
      ~req[r].cancelled =>
        req[r].opened + req[r].failed = IF Waiting(r) THEN 0 ELSE 1

C4_OneOpenedOneFailed ==
  \E r1, r2 \in DOMAIN req :
    /\ ~req[r1].cancelled /\ req[r1].opened = 1 /\ req[r1].failed = 0
    /\ ~req[r2].cancelled /\ req[r2].failed = 1 /\ req[r2].opened = 0
    /\ last.op = "Stop"

EventsNamed(events, e) == SelectSeq(events, LAMBDA ev : ev.e = e)

\* C5: after a Stop() that returns true the pending and the established
\* table are empty, every connection that was in either has had Close()
\* called, the instance map is empty, the instance id counter is 1, the
\* request ids are reset, the state is Stopped and the observer was notified
\* OnStopped exactly once.
C5_StopClearsEverything ==
  [][(last'.op = "Stop" /\ last'.ret = 1) =>
       /\ pending_connections_' = EmptyMap
       /\ connections_' = EmptyMap
       /\ \A c \in 1..Len(quic) :
            quic[c].owner \in {"pending", "established"} =>
              quic'[c].close_called
       /\ instance_map_' = EmptyMap
       /\ next_instance_id_' = 1
       /\ instance_request_ids_' = EmptyMap
       /\ state_' = "kStopped"
       /\ Len(EventsNamed(last'.events, "observer.OnStopped")) = 1]_vars

C5_StoppedWithConnections ==
  /\ last.op = "Stop" /\ last.ret = 1
  /\ Len(EventsNamed(last.events, "connection.Close")) >= 2
  /\ \E c \in 1..Len(quic) : quic[c].hs
  /\ \E c \in 1..Len(quic) : ~quic[c].hs

\* What the demuxer was handed for a stream: the bytes, and those that are
\* no EOF.
Bytes(delivered) == [i \in 1..Len(delivered) |-> delivered[i][3]]

NonEmptyBytes(delivered) ==
  SelectSeq(Bytes(delivered), LAMBDA b : b # ByteViewEmpty)

\* Everything handed to the demuxer for stream k carried the stream's own
\* (instance id, protocol connection id).
OwnKey(k) ==
  \A i \in 1..Len(hist[k].delivered) :
    /\ hist[k].delivered[i][1] = quic[k[1]].instance_id_
    /\ hist[k].delivered[i][2] = k[2]

StreamIsLive(k) == k[2] \in DOMAIN quic[k[1]].streams_

C8_NoWriteWhileSuspended ==
  (role = "server" /\ state_ = "kSuspended" /\ last.op = "Write") =>
    EventsNamed(last.events, "stream.Write") = <<>>

\* C9: CreateProtocolConnection(id) while the endpoint is not Running, or
\* with an id that is not in the established table, returns null, opens no
\* stream and leaves the pending table, the established table and every
\* stream manager unchanged.
C9_CreateRefused ==
  [][(/\ last'.op = "CreateProtocolConnection"
      /\ (state_ # "kRunning" \/ last'.arg \notin DOMAIN connections_)) =>
       /\ last'.out = 0
       /\ last'.events = <<>>
       /\ UNCHANGED <<pending_connections_, connections_, quic, pcs>>]_vars

C9_RefusedWhileSuspended ==
  /\ last.op = "CreateProtocolConnection"
  /\ state_ = "kSuspended"
  /\ last.arg \in DOMAIN connections_
  /\ last.out = 0

\* C10: Connect(name) calls made while the connection to name is pending
\* share one connection attempt and one pending entry, and at the handshake
\* every callback receives OnConnectionOpened, in registration order, each
\* with its own request id and a protocol connection of the same instance
\* id and of a stream id of its own.
C10_Coalesced ==
  [][/\ (role = "client" /\ last'.op = "Connect"
         /\ last'.name \in DOMAIN pending_connections_) =>
          /\ last'.ret = 1
          /\ quic' = quic
          /\ EventsNamed(last'.events, "factory.Connect") = <<>>
          /\ DOMAIN pending_connections_' = DOMAIN pending_connections_
          /\ pending_connections_'[last'.name].callbacks =
               Append(pending_connections_[last'.name].callbacks,
                      next_request_id_)
          /\ Cardinality({c \in 1..Len(quic') :
                            /\ quic'[c].owner = "pending"
                            /\ quic'[c].name = last'.name}) = 1
     /\ (role = "client" /\ last'.op = "OnCryptoHandshakeComplete"
         /\ last'.name \in DOMAIN pending_connections_) =>
          LET callbacks == pending_connections_[last'.name].callbacks
              opened == EventsNamed(last'.events, "OnConnectionOpened")
          IN /\ [i \in 1..Len(opened) |-> opened[i].a] = callbacks
             /\ \A i \in 1..Len(opened) :
                  /\ pcs'[opened[i].b].instance_id = last'.out
                  /\ last'.out # 0
                  /\ \A j \in 1..Len(opened) :
                       i # j => /\ opened[i].b # opened[j].b
                                /\ pcs'[opened[i].b].id # pcs'[opened[j].b].id
    ]_vars

C10_TwoOpenedAtHandshake ==
  /\ last.op = "OnCryptoHandshakeComplete"
  /\ Len(EventsNamed(last.events, "OnConnectionOpened")) = 2
  /\ Len(quic) = 1

\* The handshake-complete handler of the client applied to the current state
\* for connection c: what a handshake signal arriving now would do.
HandshakeNow(c) == QuicClient_OnCryptoHandshakeComplete(EP, c)

Others(callbacks, r) == SelectSeq(callbacks, LAMBDA x : x # r)

\* C12: CancelConnectRequest(r) leaves every other waiter untouched: each
\* pending entry keeps its callbacks other than r in the same order, an
\* entry that still has a waiter stays, no entry appears, the established
\* table is unchanged, and an r that matches no waiter changes nothing.
C12_CancelLeavesOthers ==
  [][last'.op = "CancelConnectRequest" =>
       /\ DOMAIN pending_connections_' \subseteq DOMAIN pending_connections_
       /\ \A n \in DOMAIN pending_connections_ :
            /\ Others(pending_connections_[n].callbacks, last'.arg) # <<>> =>
                 /\ n \in DOMAIN pending_connections_'
                 /\ pending_connections_'[n].callbacks =
                      Others(pending_connections_[n].callbacks, last'.arg)
                 /\ pending_connections_'[n].connection =
                      pending_connections_[n].connection
       /\ connections_' = connections_
       /\ instance_map_' = instance_map_
       /\ (\A n \in DOMAIN pending_connections_ :
             Others(pending_connections_[n].callbacks, last'.arg) =
               pending_connections_[n].callbacks) =>
            UNCHANGED <<state_, crashed, instance_map_, next_instance_id_,
                        next_request_id_, instance_infos_,
                        instance_request_ids_, pending_connections_,
                        connections_, delete_connections_, cleanup_alarm_,
                        quic, pcs>>]_vars

C12_CancelledBesideAnother ==
  /\ last.op = "CancelConnectRequest"
  /\ last.arg \in DOMAIN req
  /\ req[last.arg].opened = 0 /\ req[last.arg].failed = 0
  /\ \E n \in DOMAIN pending_connections_ : \E r \in DOMAIN req :
       /\ r # last.arg
       /\ pending_connections_[n].callbacks = <<r>>
       /\ \E c \in 1..Len(quic) : quic[c].owner = "pending" /\ quic[c].name = n

\* C13: when a pending client connection is closed before its handshake
\* completes, every waiter registered on its pending entry has received
\* OnConnectionFailed with its request id.
C13_ClosedPendingFailsWaiters ==
  (role = "client" /\ ~crashed) =>
    \A c \in 1..Len(quic) :
      (quic[c].owner = "pending" /\ quic[c].closed /\ ~quic[c].hs) =>
        \A n \in DOMAIN pending_connections_ :
          pending_connections_[n].connection = c =>
            \A i \in 1..Len(pending_connections_[n].callbacks) :
              req[pending_connections_[n].callbacks[i]].failed = 1

\* C14: Start() returns true if and only if the state is Stopped; when it
\* returns true the state is Running, a server is registered as the
\* factory's server delegate, the periodic cleanup is scheduled and the
\* observer was notified OnRunning exactly once.
C14_StartFromStopped ==
  [][last'.op = "Start" =>
       /\ (last'.ret = 1) <=> (state_ = "kStopped")
       /\ last'.ret = 1 =>
            /\ state_' = "kRunning"
            /\ role = "server" => server_delegate_'
            /\ cleanup_alarm_'
            /\ Len(EventsNamed(last'.events, "observer.OnRunning")) = 1]_vars

C14_ServerRestarted ==
  /\ last.op = "Start" /\ last.ret = 1
  /\ role = "server" /\ server_delegate_ /\ starts = 2

\* The observer notifications of the last operation.
ObserverEvents ==
  SelectSeq(last.events,
            LAMBDA ev : ev.e \in {"observer.OnRunning", "observer.OnStopped",
                                  "observer.OnSuspended"})

\* C15: a lifecycle call outside its precondition (Start when not Stopped,
\* Stop when Stopped, Suspend when not Running, Resume when not Suspended)
\* returns false, leaves the state, the pending and established tables, the
\* instance map and the id counter unchanged and notifies no observer.
C15_RefusedLifecycleCall ==
  [][(\/ last'.op = "Start" /\ state_ # "kStopped"
      \/ last'.op = "Stop" /\ state_ = "kStopped"
      \/ last'.op = "Suspend" /\ state_ # "kRunning"
      \/ last'.op = "Resume" /\ state_ # "kSuspended") =>
       /\ last'.ret = 0
       /\ ObserverEvents' = <<>>
       /\ UNCHANGED <<state_, pending_connections_, connections_,
                      instance_map_, next_instance_id_>>]_vars

C15_SuspendRepeated ==
  /\ last.op = "Suspend" /\ last.ret = 0
  /\ state_ = "kSuspended"
  /\ connections_ # EmptyMap

\* The messages the last call wrote, and the callbacks it made.
AuthWritten ==
  SelectSeq(auth.events, LAMBDA ev : ev.e = "WriteMessage")

AuthCallbacks ==
  SelectSeq(auth.events,
            LAMBDA ev : ev.e \in {"OnAuthenticationSucceed",
                                  "OnAuthenticationFailed"})

\* The session decoded message m of the given type: it has a sender, the
\* message is for its own instance and its bytes decode.
AuthDecoded(type) ==
  /\ ~auth.crashed
  /\ auth.op = "OnStreamMessage"
  /\ auth.arg = auth.instance_id_
  /\ auth.sender
  /\ auth.msg.type = type /\ auth.msg.wire = "ok"

\* C18: on a well-formed (64 byte) Confirmation the handler compares the
\* value with the stored shared key: equal, it writes exactly one
\* Status{Authenticated} and notifies success; otherwise it writes exactly
\* one Status{ProofInvalid} and notifies failure with InvalidAnswer; in both
\* cases it reports the bytes consumed.
C18_ConfirmationCompared ==
  (AuthDecoded("kAuthSpake2Confirmation") /\ auth.msg.value # ShortValue) =>
    /\ auth.ret = "result"
    /\ Len(AuthWritten) = 1 /\ Len(AuthCallbacks) = 1
    /\ IF auth.msg.value = auth.shared_key
       THEN /\ AuthWritten[1].msg = AuthStatus("kAuthenticated")
            /\ AuthCallbacks[1].e = "OnAuthenticationSucceed"
       ELSE /\ AuthWritten[1].msg = AuthStatus("kProofInvalid")
            /\ AuthCallbacks[1].e = "OnAuthenticationFailed"
            /\ AuthCallbacks[1].code = "kInvalidAnswer"

C18_KeyConfirmedAfterHandshake ==
  /\ AuthDecoded("kAuthSpake2Confirmation")
  /\ auth.shared_key # ZeroKey
  /\ auth.msg.value = auth.shared_key
  /\ auth.succeed = 1 /\ auth.failed = 0

\* The last message carried the token set on the session.
TokenMatches == auth.msg.has_token /\ auth.msg.token = auth.auth_token

\* The session's own public value.
OwnPublicValue ==
  AuthenticationBase_ComputePublicValue(
    AuthenticationBase_ComputePrivateKey(auth.fingerprint_))

\* The shared key the session computes from the last message's public value
\* and its password.
KeyFromHandshake ==
  AuthenticationBase_ComputeSharedKey(
    AuthenticationBase_ComputePrivateKey(auth.fingerprint_),
    auth.msg.public_value, auth.password)

\* C19: on a Handshake with a matching token (and a public value of the
\* group), psk_status Shown makes the handler store the shared key computed
\* from the peer's public value and its password and write exactly one
\* Handshake with the same token, psk_status Input and its own public
\* value; psk_status Input makes it write exactly one Confirmation carrying
\* the shared key computed from that handshake; neither fires a callback.
C19_HandshakeAnswered ==
  (/\ AuthDecoded("kAuthSpake2Handshake") /\ TokenMatches
   /\ ValidPublicValue(auth.msg.public_value)) =>
    /\ auth.msg.psk_status = "kPskShown" =>
         /\ auth.shared_key = KeyFromHandshake
         /\ AuthWritten =
              <<[e |-> "WriteMessage", code |-> "",
                 msg |-> AuthSpake2Handshake(TRUE, auth.msg.token,
                                             "kPskInput", OwnPublicValue)]>>
         /\ AuthCallbacks = <<>>
    /\ auth.msg.psk_status = "kPskInput" =>
         /\ AuthWritten =
              <<[e |-> "WriteMessage", code |-> "",
                 msg |-> AuthSpake2Confirmation(KeyFromHandshake)]>>
         /\ AuthCallbacks = <<>>

C19_ShownHandshakeStored ==
  /\ AuthDecoded("kAuthSpake2Handshake") /\ TokenMatches
  /\ auth.msg.psk_status = "kPskShown"
  /\ auth.password = 1 /\ auth.auth_token = 1
  /\ auth.shared_key = KeyFromHandshake /\ auth.shared_key # ZeroKey

\* C20: on a Handshake whose initiation token is absent or differs from the
\* token set locally the handler writes nothing, leaves the stored shared
\* key as it was and signals OnAuthenticationFailed with InvalidAnswer,
\* whatever the psk_status.
C20_TokenMismatchRejected ==
  [][(AuthDecoded("kAuthSpake2Handshake")' /\ ~TokenMatches') =>
       /\ AuthWritten' = <<>>
       /\ auth'.shared_key = auth.shared_key
       /\ Len(AuthCallbacks') = 1
       /\ AuthCallbacks'[1].e = "OnAuthenticationFailed"
       /\ AuthCallbacks'[1].code = "kInvalidAnswer"]_vars

C20_WrongTokenAfterKey ==
  /\ AuthDecoded("kAuthSpake2Handshake")
  /\ auth.msg.has_token /\ auth.msg.token # auth.auth_token
  /\ auth.msg.psk_status = "kPskShown"
  /\ auth.shared_key # ZeroKey
  /\ auth.failed = 1

\* Nothing is in flight after the presenter has started: the exchange is over.
ExchangeOver ==
  peer.started /\ peer.toBob = <<>> /\ peer.toAlice = <<>>

SameSecrets ==
  /\ auth.password = peer.alice.password
  /\ auth.auth_token = peer.alice.auth_token

C21_NeedsPresentationRejected ==
  [][(/\ AuthDecoded("kAuthSpake2Handshake")' /\ TokenMatches'
      /\ auth'.msg.psk_status = "kPskNeedsPresentation") =>
       /\ AuthWritten' = <<>>
       /\ auth'.shared_key = auth.shared_key
       /\ AuthCallbacks' =
            <<[e |-> "OnAuthenticationFailed", code |-> "kInvalidAnswer",
               msg |-> NoMsg]>>
       /\ auth'.failed = auth.failed + 1
       /\ auth'.succeed = auth.succeed]_vars

C21_RepeatedNeedsPresentation ==
  /\ AuthDecoded("kAuthSpake2Handshake") /\ TokenMatches
  /\ auth.msg.psk_status = "kPskNeedsPresentation"
  /\ ValidPublicValue(auth.msg.public_value)
  /\ auth.shared_key # ZeroKey
  /\ auth.failed = 2 /\ auth.writes = 1

\* The last call was StartAuthentication, or OnStreamMessage for the
\* session's own instance.
AuthEntered ==
  /\ ~auth.crashed
  /\ \/ auth.op = "StartAuthentication"
     \/ auth.op = "OnStreamMessage" /\ auth.arg = auth.instance_id_

\* C22: when the send-side or the receive-side protocol connection of the
\* session is missing, StartAuthentication and OnStreamMessage do nothing
\* but signal OnAuthenticationFailed with NoActiveConnection: no message is
\* written, none is decoded, and OnStreamMessage returns NoActiveConnection.
C22_MissingConnectionFails ==
  (AuthEntered /\ (~auth.sender \/ ~auth.receiver)) =>
    /\ auth.events =
         <<[e |-> "OnAuthenticationFailed", code |-> "kNoActiveConnection",
            msg |-> NoMsg]>>
    /\ auth.op = "OnStreamMessage" => auth.ret = "kNoActiveConnection"

\* The entry OnClose appends to closed_streams_ for the pair it moves.
ClosedPair(stream_id, stream_pair) ==
  [stream_id |-> stream_id,
   protocol_connection_id |-> stream_pair.protocol_connection_id,
   protocol_connection |-> stream_pair.protocol_connection]

\* What a close of the live pair of stream_id on connection c is to tell, in
\* order: the EOF to the demuxer, then the observer of the owning handle.
CloseEvents(c, stream_id) ==
  <<Event("OnStreamData", quic[c].instance_id_,
          quic[c].streams_[stream_id].protocol_connection_id, ByteViewEmpty)>>
  \o (IF /\ quic[c].streams_[stream_id].protocol_connection # 0
          /\ pcs[quic[c].streams_[stream_id].protocol_connection].observer
       THEN <<Event("observer.OnConnectionClosed",
                    quic[c].streams_[stream_id].protocol_connection, 0, 0)>>
       ELSE <<>>)

\* C23: a stream close first hands one EOF to the demuxer under the stream's
\* (instance id, protocol connection id), then detaches the owning handle
\* and notifies its observer, then moves the pair from streams_ to
\* closed_streams_; a close for an unknown stream id changes nothing; and a
\* closed pair leaves closed_streams_ only in a cleanup run.
C23_CloseInOrder ==
  [][\A c \in Conns :
       /\ (last'.op = "OnClose" /\ last'.out = c) =>
            IF last'.arg \in DOMAIN quic[c].streams_
            THEN /\ ~crashed'
                 /\ last'.events = CloseEvents(c, last'.arg)
                 /\ quic[c].streams_[last'.arg].protocol_connection # 0 =>
                      pcs'[quic[c].streams_[last'.arg].protocol_connection]
                        .stream = NoStream
                 /\ last'.arg \notin DOMAIN quic'[c].streams_
                 /\ quic'[c].closed_streams_ =
                      Append(quic[c].closed_streams_,
                             ClosedPair(last'.arg,
                                        quic[c].streams_[last'.arg]))
            ELSE /\ last'.events = <<>>
                 /\ quic' = quic /\ pcs' = pcs /\ hist' = hist
       /\ Len(quic'[c].closed_streams_) < Len(quic[c].closed_streams_) =>
            last'.op = "Cleanup"]_vars

\* C24: once the record of a connection has been erased from the
\* established table, by a cleanup run or by Stop, no observer of a protocol
\* connection of that connection is called and nothing of that connection
\* is handed to the demuxer: neither later in the call that erased it nor
\* in any later call.
C24_NothingAfterErase ==
  [][\A c \in 1..Len(quic') :
       /\ quic'[c].owner # "called after destruction"
       /\ (c \in Conns /\ quic[c].owner = "destroyed") =>
            /\ quic'[c] = quic[c]
            /\ \A k \in DOMAIN hist' :
                 k[1] = c => k \in DOMAIN hist /\ hist'[k] = hist[k]
            /\ \A h \in Handles :
                 pcs[h].made_on = c =>
                   \A i \in 1..Len(last'.events) :
                     ~(/\ last'.events[i].e = "observer.OnConnectionClosed"
                       /\ last'.events[i].a = h)]_vars

C24_ErasedAfterCallbacks ==
  \E c \in Conns :
    /\ quic[c].owner = "destroyed"
    /\ last.op \in {"Stop", "Cleanup"}
    /\ \E k \in DOMAIN hist :
         k[1] = c /\ Bytes(hist[k].delivered) = <<1, ByteViewEmpty>>
    /\ \E h \in Handles :
         /\ pcs[h].made_on = c
         /\ pcs[h].observer /\ ~pcs[h].destroyed
         /\ pcs[h].stream = NoStream

\* The calls a holder makes on its handle.
HandleCalls == {"Write", "CloseWriteEnd", "DestroyProtocolConnection"}

\* C25: once the stream of a protocol connection has closed the handle is
\* inert: no handle that still exists points to a stream that is no longer
\* in the live map of its connection, and a Write, a CloseWriteEnd or the
\* destruction of a handle whose stream pointer is cleared does nothing on
\* any stream, notifies no owner and changes no stream manager.
C25_ClosedHandleInert ==
  [][/\ \A h \in 1..Len(pcs') :
          (~pcs'[h].destroyed /\ pcs'[h].stream # NoStream) =>
            pcs'[h].stream[2] \in DOMAIN quic'[pcs'[h].stream[1]].streams_
     /\ \A h \in LiveHandles :
          (/\ pcs[h].stream = NoStream
           /\ last'.op \in HandleCalls /\ last'.arg = h) =>
            /\ last'.events = <<>>
            /\ quic' = quic /\ hist' = hist /\ connections_' = connections_
            /\ \A g \in Handles \ {h} : pcs'[g] = pcs[g]]_vars

C25_WriteAfterClose ==
  /\ last.op = "Write" /\ state_ = "kRunning" /\ ~crashed
  /\ pcs[last.arg].stream = NoStream
  /\ pcs[last.arg].observer
  /\ quic[pcs[last.arg].made_on].owner = "established"
  /\ \E i \in 1..Len(quic[pcs[last.arg].made_on].closed_streams_) :
       quic[pcs[last.arg].made_on].closed_streams_[i].protocol_connection
         = last.arg

\* C26: the factory closes a socket (drops it from sockets_ together with
\* its dispatcher) only when no entry of the connection table refers to it:
\* every socket an entry refers to is owned by the factory; when
\* OnConnectionClosed(c) returns, c has no entry left, the socket of c's
\* entry is released exactly if no remaining entry refers to it, and no
\* other socket is touched; and a socket leaves sockets_ in no other call.
C26_SocketClosedWhenUnreferenced ==
  [][/\ ReferencedSockets(factory') \subseteq Range(factory'.sockets_)
     /\ (factory'.op = "OnConnectionClosed" /\ ~factory'.crashed) =>
          \A e \in EntriesOf(factory, factory'.arg) :
            /\ EntriesOf(factory', factory'.arg) = {}
            /\ factory.connections_[e].socket \notin Range(factory'.sockets_)
                 <=> factory.connections_[e].socket
                       \notin ReferencedSockets(factory')
            /\ factory.connections_[e].socket \notin Range(factory'.sockets_)
                 => factory.connections_[e].socket \notin factory'.dispatchers_
            /\ Range(factory'.sockets_) \cup {factory.connections_[e].socket}
                 = Range(factory.sockets_)
     /\ \A s \in Range(factory.sockets_) \ Range(factory'.sockets_) :
          /\ factory'.op = "OnConnectionClosed"
          /\ s \notin ReferencedSockets(factory')]_vars

C26_SharedSocketKept ==
  /\ factory.role = "server" /\ ~factory.crashed
  /\ factory.op = "OnConnectionClosed"
  /\ factory.nconns = 2 /\ Cardinality(DOMAIN factory.connections_) = 1
  /\ ReferencedSockets(factory) = Range(factory.sockets_)
  /\ factory.dispatchers_ = Range(factory.sockets_)

\* C27: the periodic cleanup runs exactly while the endpoint is not
\* Stopped: a cleanup run re-schedules itself exactly if the state is not
\* Stopped, a successful Start leaves a run scheduled, a successful Stop
\* leaves none scheduled, and the alarm never fires in state Stopped.
C27_CleanupWhileNotStopped ==
  [][~crashed' =>
       /\ last'.op = "Cleanup" =>
            /\ state_ # "kStopped"
            /\ cleanup_alarm_' = (state_' # "kStopped")
       /\ (last'.op = "Start" /\ last'.ret = 1) => cleanup_alarm_'
       /\ (last'.op = "Stop" /\ last'.ret = 1) => ~cleanup_alarm_']_vars

\* C28: a watcher whose watch has been released, before a dispatch or from
\* inside a callback during it (its own included), is not called again:
\* not for the remaining messages of the buffer being dispatched and not
\* for any later data.
C28_ReleasedWatcherNotCalled ==
  /\ \A i \in 1..Len(demuxer.calls) : ~demuxer.calls[i].late
  /\ \A i \in 1..Len(demuxer.watchers) :
       demuxer.watchers[i].id \notin demuxer.released

C28_ReleasedInOwnCallback ==
  /\ demuxer.op = "OnStreamData"
  /\ demuxer.arg = <<"kAuthStatus", "kAuthStatus">>
  /\ \E w1, w2 \in WatchIds :
       /\ w1 < w2
       /\ w1 \in demuxer.released
       /\ demuxer.calls =
            <<[watch |-> w1, type |-> "kAuthStatus", n |-> 1, late |-> FALSE],
              [watch |-> w2, type |-> "kAuthStatus", n |-> 1, late |-> FALSE],
              [watch |-> w2, type |-> "kAuthStatus", n |-> 2, late |-> FALSE]>>

\* C29: Connect(name) on a Running client whose name-to-id map gives an id
\* with an established record completes before it returns: the callback
\* receives exactly one OnConnectionOpened, with a request id not used
\* before and not zero and with a new protocol connection of that instance
\* id, no OnConnectionFailed, Connect returns true, and no pending entry
\* and no connection is created.
C29_SynchronousConnect ==
  [][(/\ role = "client" /\ state_ = "kRunning"
      /\ last'.op = "Connect"
      /\ last'.name \in DOMAIN instance_map_
      /\ instance_map_[last'.name] \in DOMAIN connections_) =>
       LET opened == EventsNamed(last'.events, "OnConnectionOpened")
       IN /\ ~crashed'
          /\ last'.ret = 1
          /\ Len(opened) = 1
          /\ EventsNamed(last'.events, "OnConnectionFailed") = <<>>
          /\ opened[1].a # 0
          /\ opened[1].a \notin DOMAIN req
          /\ opened[1].a \in DOMAIN req'
          /\ opened[1].b \notin 1..Len(pcs)
          /\ opened[1].b \in 1..Len(pcs')
          /\ pcs'[opened[1].b].instance_id = instance_map_[last'.name]
          /\ ~pcs'[opened[1].b].destroyed
          /\ pending_connections_' = pending_connections_
          /\ Len(quic') = Len(quic)
          /\ EventsNamed(last'.events, "factory.Connect") = <<>>
          /\ connections_' = connections_
          /\ instance_map_' = instance_map_
    ]_vars

C29_OpenedTwiceOnOneConnection ==
  /\ role = "client"
  /\ last.op = "Connect"
  /\ last.ret = 1
  /\ Len(EventsNamed(last.events, "OnConnectionOpened")) = 1
  /\ Len(quic) = 1
  /\ Cardinality({h \in 1..Len(pcs) : pcs[h].made_on = 1}) >= 2

\* C30: the destruction of a protocol connection whose stream is open calls
\* CloseWriteEnd on the stream and notifies the owner, and nothing else: the
\* stream manager clears the pair's pointer to the handle and keeps the
\* pair, with its protocol connection id, in the live map; data received on
\* the stream afterwards goes to the demuxer under that id whenever the
\* delivery returns; and the stream manager holds no pointer to a destroyed
\* handle and makes no call on one.
C30_DestroyClosesWriteHalf ==
  [][/\ \A h \in LiveHandles :
          (/\ pcs[h].stream # NoStream
           /\ last'.op = "DestroyProtocolConnection" /\ last'.arg = h) =>
            \E c \in Conns, sid \in 0..MaxHandles :
              /\ pcs[h].stream = <<c, sid>>
              /\ ~crashed'
              /\ last'.events =
                   <<Event("stream.CloseWriteEnd", c, sid, 0),
                     Event("owner.OnConnectionDestroyed", h, 0, 0)>>
              /\ sid \in DOMAIN quic[c].streams_
              /\ DOMAIN quic'[c].streams_ = DOMAIN quic[c].streams_
              /\ quic[c].streams_[sid].protocol_connection = h
              /\ quic'[c].streams_[sid] =
                   [quic[c].streams_[sid] EXCEPT !.protocol_connection = 0]
              /\ quic'[c].closed_streams_ = quic[c].closed_streams_
              /\ pcs'[h].destroyed /\ pcs'[h].stream = NoStream
     /\ \A c \in Conns :
          \A sid \in DOMAIN quic[c].streams_ :
            (/\ quic[c].streams_[sid].protocol_connection = 0
             /\ last'.op = "OnReceived" /\ last'.out = c /\ last'.arg = sid
             /\ ~crashed') =>
              /\ Len(last'.events) = 1
              /\ last'.events[1].e = "OnStreamData"
              /\ last'.events[1].a = quic[c].instance_id_
              /\ last'.events[1].b =
                   quic[c].streams_[sid].protocol_connection_id
              /\ last'.events[1].c # ByteViewEmpty
              /\ \E h \in Handles :
                   /\ pcs[h].destroyed /\ pcs[h].made_on = c
                   /\ pcs[h].id = last'.events[1].b
              /\ quic'[c].streams_ = quic[c].streams_
     /\ \A h \in Handles :
          pcs[h].destroyed =>
            \A i \in 1..Len(last'.events) :
              ~(/\ last'.events[i].e = "observer.OnConnectionClosed"
                /\ last'.events[i].a = h)
     /\ \A c \in 1..Len(quic') :
          \A sid \in DOMAIN quic'[c].streams_ :
            quic'[c].streams_[sid].protocol_connection # 0 =>
              ~pcs'[quic'[c].streams_[sid].protocol_connection].destroyed
    ]_vars

C30_ReceivedAfterDestruction ==
  /\ last.op = "OnReceived" /\ ~crashed
  /\ last.out \in Conns
  /\ last.arg \in DOMAIN quic[last.out].streams_
  /\ quic[last.out].streams_[last.arg].protocol_connection = 0
  /\ Len(last.events) = 1
  /\ last.events[1].e = "OnStreamData"
  /\ \E h \in Handles :
       /\ pcs[h].destroyed /\ pcs[h].made_on = last.out
       /\ pcs[h].id = last.events[1].b

\* The instance ids waiting in the connections-to-delete queue.
Queued == {delete_connections_[i] : i \in 1..Len(delete_connections_)}

\* C31: a Cleanup pass of the client that runs to its end has called
\* Close() on every established connection that had no live stream, leaves
\* the connections-to-delete queue empty and no id that was in the queue in
\* the established table, and leaves a connection that has a live stream
\* and was not queued as it was: its record, its streams, not closed.
C31_CleanupPass ==
  [][(role = "client" /\ last'.op = "Cleanup" /\ ~crashed') =>
       /\ delete_connections_' = <<>>
       /\ \A id \in Queued : id \notin DOMAIN connections_'
       /\ \A id \in DOMAIN connections_ :
            LET c == connections_[id].connection
            IN /\ DOMAIN quic[c].streams_ = {} =>
                    /\ quic'[c].close_called
                    /\ \E i \in 1..Len(last'.events) :
                         last'.events[i] = Event("connection.Close", c, 0, 0)
               /\ (DOMAIN quic[c].streams_ # {} /\ id \notin Queued) =>
                    /\ id \in DOMAIN connections_'
                    /\ connections_'[id] = connections_[id]
                    /\ quic'[c].streams_ = quic[c].streams_
                    /\ quic'[c].close_called = quic[c].close_called
                    /\ quic'[c].closed = quic[c].closed
                    /\ quic'[c].owner = quic[c].owner
                    /\ \A i \in 1..Len(last'.events) :
                         last'.events[i] # Event("connection.Close", c, 0, 0)
    ]_vars

C31_IdleClosedBusyKept ==
  /\ role = "client" /\ last.op = "Cleanup" /\ ~crashed
  /\ \E i \in 1..Len(last.events) : last.events[i].e = "connection.Close"
  /\ \E id \in DOMAIN connections_ :
       /\ DOMAIN quic[connections_[id].connection].streams_ # {}
       /\ ~quic[connections_[id].connection].close_called

\* The session's authentication data and what it has done so far.
AuthData ==
  <<auth.sender, auth.receiver, auth.auth_token, auth.password,
    auth.shared_key, auth.succeed, auth.failed, auth.writes>>

\* C32: for a session that has its sender and is handed a message of an
\* auth type for its own instance: a truncated message (the decoder reports
\* kParserEOF) returns CborIncompleteMessage, writes nothing, calls no
\* callback and leaves the authentication data as it was; a malformed
\* message returns CborParsing and calls OnAuthenticationFailed once; a
\* message that decodes returns the decoder's result, the bytes consumed,
\* also when the check it carries fails.
C32_DecodeOutcome ==
  [][(/\ auth'.op = "OnStreamMessage" /\ auth.sender
      /\ auth'.arg = auth.instance_id_
      /\ auth'.msg.type \in AuthTypes) =>
       /\ auth'.msg.wire = "eof" =>
            /\ ~auth'.crashed
            /\ auth'.ret = "kCborIncompleteMessage"
            /\ auth'.events = <<>>
            /\ AuthData' = AuthData
       /\ auth'.msg.wire = "bad" =>
            /\ ~auth'.crashed
            /\ auth'.ret = "kCborParsing"
            /\ auth'.events =
                 <<[e |-> "OnAuthenticationFailed", code |-> "kCborParsing",
                    msg |-> NoMsg]>>
            /\ auth'.shared_key = auth.shared_key
       /\ (auth'.msg.wire = "ok" /\ ~auth'.crashed) =>
            auth'.ret = "result"
    ]_vars

C32_TruncatedAfterHandshake ==
  /\ ~auth.crashed /\ auth.op = "OnStreamMessage" /\ auth.sender
  /\ auth.arg = auth.instance_id_
  /\ auth.msg.type = "kAuthSpake2Confirmation" /\ auth.msg.wire = "eof"
  /\ auth.ret = "kCborIncompleteMessage"
  /\ auth.shared_key # ZeroKey /\ auth.writes = 1
  /\ auth.failed = 0 /\ auth.succeed = 0

\* The operations in which the QUIC layer or Stop() reaches a QuicServer
\* callback that asserts state_ == kRunning.
AssertingOps ==
  {"NextConnectionDelegate", "OnIncomingConnection",
   "OnCryptoHandshakeComplete", "OnIncomingStream", "OnConnectionClosed",
   "OnReceived", "OnClose", "Stop"}

\* C33: the callbacks of QuicServer that assert state_ == kRunning are
\* reached only while the server is Running, so that no such assertion
\* fails: not for an event of the QUIC layer that arrives while the server
\* is Suspended or Stopped, and not for the close notifications raised by
\* the Close() calls of a Stop() made while Suspended.
C33_AssertionsHold ==
  [][(/\ role = "server" /\ state_ # "kRunning"
      /\ last'.op \in AssertingOps) => ~crashed']_vars

\* C34: in a Running client every name of the name-to-id map has an id
\* with a record in the established table, also after the connection of
\* that instance closed and Cleanup erased its record; and the synchronous
\* path of Connect obtains a protocol connection, so that its assertion
\* does not fail.
C34_NamesAreEstablished ==
  role = "client" =>
    /\ (state_ = "kRunning" /\ ~crashed) =>
         \A n \in DOMAIN instance_map_ :
           instance_map_[n] \in DOMAIN connections_
    /\ last.op = "Connect" => ~crashed

\* C35: OnAuthenticationSucceed is signalled on a Confirmation only when
\* its value equals a stored shared key that a handshake has computed, and
\* a Confirmation or a Status{Authenticated} that arrives while the stored
\* shared key still has its initial all-zero value, no handshake having
\* been processed, signals no success.
C35_SuccessOnlyAfterHandshake ==
  [][(auth'.op = "OnStreamMessage" /\ auth'.succeed > auth.succeed) =>
       /\ auth.shared_key # ZeroKey
       /\ auth'.msg.type = "kAuthSpake2Confirmation" =>
            auth'.msg.value = auth.shared_key
    ]_vars

\* C36: a session handed an auth message whose instance id is not its own
\* instance_id_ is not affected by it: its authentication data stay as
\* they were, it writes nothing and calls no callback, and its assertion
\* instance_id_ == instance_id does not fail.
C36_OtherInstanceIgnored ==
  [][(auth'.op = "OnStreamMessage" /\ auth'.arg # auth.instance_id_) =>
       /\ ~auth'.crashed
       /\ auth'.events = <<>>
       /\ AuthData' = AuthData]_vars

\* C37: every connection that Connect of the factory returned has an entry
\* in the factory's connection map until OnConnectionClosed is called for
\* it, also when two connections are opened to one remote endpoint, and the
\* lookup assertion of OnConnectionClosed does not fail.
C37_OpenConnectionsRecorded ==
  factory.role = "client" =>
    /\ ~factory.crashed =>
         \A connection \in factory.open :
           EntriesOf(factory, connection) # {}
    /\ factory.op = "OnConnectionClosed" => ~factory.crashed

\* C38: OnRead hands a packet to the dispatcher of the socket, and then
\* only while a server delegate is set, or to the connection of the
\* packet's source, or drops it, never to more than one of them; a packet
\* read on a server socket after the server delegate was unset is dropped;
\* and neither the assertion that a server delegate is set nor the call
\* through the dispatcher pointer fails.
C38_PacketRouted ==
  [][(factory.role # "none" /\ factory'.op = "OnRead") =>
       /\ ~factory'.crashed
       /\ Len(factory'.events) <= 1
       /\ \A i \in 1..Len(factory'.events) :
            /\ factory'.events[i].e \in
                 {"dispatcher.ProcessPacket", "connection.OnRead"}
            /\ factory'.events[i].e = "dispatcher.ProcessPacket" =>
                 factory.server_delegate_
       /\ (factory.role = "server" /\ ~factory.server_delegate_) =>
            /\ factory'.events = <<>>
            /\ factory'.connections_ = factory.connections_
    ]_vars

\* The names of the records of the pending table, and the ids of the
\* records of the established table, that own connection c.
PendingOwners(pending, c) ==
  {n \in DOMAIN pending : pending[n].connection = c}

EstablishedOwners(established, c) ==
  {i \in DOMAIN established : established[i].connection = c}

\* C39: a connection handed to OnIncomingConnection of the server is owned
\* by exactly one record, a pending one under its instance name, also when
\* a record of that name is pending already; no connection is owned by a
\* pending and by an established record, or by two of a kind; and the
\* completion of its handshake promotes that very connection.
C39_OneOwningRecord ==
  [][role = "server" =>
       /\ (last'.op = "OnIncomingConnection" /\ ~crashed') =>
            /\ PendingOwners(pending_connections_', last'.arg) =
                 {quic[last'.arg].name}
            /\ EstablishedOwners(connections_', last'.arg) = {}
       /\ \A c \in 1..Len(quic') :
            Cardinality(PendingOwners(pending_connections_', c)) +
            Cardinality(EstablishedOwners(connections_', c)) <= 1
       /\ (last'.op = "OnCryptoHandshakeComplete" /\ ~crashed'
           /\ last'.out # 0) =>
            /\ EstablishedOwners(connections_', last'.arg) = {last'.out}
            /\ PendingOwners(pending_connections_', last'.arg) = {}
    ]_vars

\* C40: for a view v and all offset, count with offset + count <= v.size(),
\* subspan(offset, count) fails no assertion and returns the view with
\* data() = v.data() + offset and size() = count; and for 0 < n <= v.size()
\* subspan(0, n) is first(n) and subspan(v.size() - n, n) is last(n).
C40_SubspanPermitted ==
  /\ (view.op = "subspan" /\ view.offset + view.count <= view.count_) =>
       /\ ~view.aborted
       /\ view.ret = ByteView(view.data_ + view.offset, view.count)
  /\ (view.op = "first" /\ 0 < view.count /\ view.count <= view.count_) =>
       ByteView_subspan(ThisView, view.ndebug, 0, view.count) = {view.ret}
  /\ (view.op = "last" /\ 0 < view.count /\ view.count <= view.count_) =>
       ByteView_subspan(ThisView, view.ndebug, view.count_ - view.count,
                        view.count) = {view.ret}
====
